---- MODULE Spec2Model ----
(***************************************************************************)
(* Session / authorization engine of the portfolio tracker.                *)
(*                                                                         *)
(* Part 1: the Redis-backed session store (src/lib/auth/hybrid-client.ts,  *)
(* the session-v2 section from line 351 on): createSession,                *)
(* validateAndRefreshSession, rotateSession, revokeSession,                *)
(* revokeAllUserSessions, updateUserRole.  Every `await` on the store is   *)
(* one step of a task; the steps of concurrent tasks interleave freely.    *)
(* A pipeline is one round trip and is executed by the store as one step.  *)
(*                                                                         *)
(* Part 2: the row-level-security context wrapper (src/lib/db/schema.ts,   *)
(* withRLS) on top of the policies of migrations/001_enable_rls.sql.       *)
(*                                                                         *)
(* Part 3: user provisioning (provisionUser, app.provision_user).          *)
(***************************************************************************)
EXTENDS Integers, Sequences, FiniteSets, TLC

\* ------------------------------------------------------------------------
\* Bounds of the model
\* ------------------------------------------------------------------------
MaxTime == 1
MaxVer == 3
MaxSessions == 1
MaxRotations == 1
MaxIds == 2
MaxRows == 2
MaxProvisioned == 3
MaxLateTime == 2
MaxTokens == 2
MaxTokenTime == 2000

Tasks == {1, 2}
Users == {"u1", "u2"}

\* ------------------------------------------------------------------------
\* Program constants
\* ------------------------------------------------------------------------
DefaultAbsoluteTtl == 2592000
DefaultIdleTtl == 43200

\* createSession parameter vectors (CreateSessionParams); 0 stands for an
\* omitted TTL, "" for an omitted device id.
CreateInputs ==
  { [userId |-> "u1", deviceId |-> "d1", role |-> "TRADER", mfa |-> FALSE,
     absoluteTtlSec |-> 2, idleTtlSec |-> 1],
    [userId |-> "u2", deviceId |-> "", role |-> "ADMIN", mfa |-> TRUE,
     absoluteTtlSec |-> 0, idleTtlSec |-> 0] }

\* idleTtlSec argument of validateAndRefreshSession: the default of 12 hours
IdleTtlInputs == {DefaultIdleTtl}

\* idleTtlSec argument the session status check passes
StatusIdleTtl == 0

\* "d1" is a device id a caller passes; "g1" and "g2" are the ids the login
\* routes generate themselves (crypto.randomUUID() with the time appended)
Devices == {"d1", "g1", "g2"}
\* The ids a caller can present; those above MaxSessions are never issued
SessionIds == 1..MaxIds

VARIABLES
  clock,           \* Unix time in seconds (Date.now()/1000, and the store's clock)
  sessKey,         \* sess:<id>      -> [exists, blob, expireAt]
  userSessions,    \* user:sess:<u>  -> set of session ids
  deviceSessions,  \* dev:sess:<d>   -> set of session ids
  userRoleVersion, \* user:ver:<u>   -> integer value of the key, 0 = key absent
  nextId,          \* next session id generateSessionId hands out
  task,            \* per task: operation, position, locals, result
  hist,            \* per session id: history used to state the properties
  conn,            \* pooled database connections (part 2)
  committed,       \* committed rows of the portfolios table (part 2)
  rtask,           \* per task: position inside withRLS (part 2)
  rowSeq,          \* next id the portfolios table hands out (part 2)
  pUsers,          \* committed rows of the users table (part 3)
  pPortfolios,     \* committed portfolios rows written by provisioning (part 3)
  ptask,           \* per task: position inside provisionUser (part 3)
  pSeq,            \* next portfolio id gen_random_uuid hands out (part 3)
  mw,              \* the request authMiddleware is handling and its response (part 4)
  ep,              \* per task: the revoke endpoint's request and response (part 5)
  watch,           \* per session id: what createSession stored, validations begun, time of the first (part 6)
  tok              \* the one-time token service: its clock, its token map, its calls (part 7)

sessionVars == <<clock, sessKey, userSessions, deviceSessions, userRoleVersion,
                 nextId, task, hist>>
rlsVars == <<conn, committed, rtask, rowSeq>>
provVars == <<pUsers, pPortfolios, ptask, pSeq>>
mwVars == <<mw>>
epVars == <<ep>>
watchVars == <<watch>>
tokVars == <<tok>>
extVars == <<provVars, mwVars, epVars, watchVars, tokVars>>
vars == <<clock, sessKey, userSessions, deviceSessions, userRoleVersion,
          nextId, task, hist, conn, committed, rtask, rowSeq, extVars>>

\* ------------------------------------------------------------------------
\* Values
\* ------------------------------------------------------------------------
NullSession ==
  [uid |-> "", did |-> "", iat |-> 0, exp |-> 0, idleExp |-> 0, rc |-> 0,
   mfa |-> FALSE, role |-> "", roleVersion |-> 0]

NoTtl == -1
AbsentKey == [exists |-> FALSE, blob |-> NullSession, expireAt |-> NoTtl]

NoResult == [valid |-> FALSE, reason |-> ""]

IdleTask ==
  [op |-> "idle", pc |-> "idle", sid |-> 0, uid |-> "", now |-> 0,
   ttl |-> 0, absTtl |-> 0, sess |-> NullSession, members |-> {}, covered |-> {},
   res |-> NoResult, clean |-> FALSE, afterAll |-> FALSE, afterBump |-> FALSE,
   found |-> FALSE, verErr |-> FALSE, verReply |-> <<>>, fault |-> FALSE,
   afterValid |-> FALSE, count |-> 0]

\* stage: "" (id unused), "started", "verRead" (INCR done), "created"
\* (createSession returned the id)
NoHist == [uid |-> "", stage |-> "", rv |-> 0, revokedAll |-> FALSE]

Min(a, b) == IF a <= b THEN a ELSE b

\* Math.min(x, y) and `p || d` of JavaScript on numbers
OrDefault(p, d) == IF p = 0 THEN d ELSE p

\* The store keeps a counter as a decimal string; GET returns that string
\* (here a sequence of digits, <<>> for a missing key) and the code converts
\* it back with parseInt.
RECURSIVE ToDigits(_)
ToDigits(n) == IF n < 10 THEN <<n>> ELSE ToDigits(n \div 10) \o <<n % 10>>

RECURSIVE ParseInt(_)
ParseInt(ds) ==
  IF Len(ds) = 0 THEN 0
  ELSE 10 * ParseInt(SubSeq(ds, 1, Len(ds) - 1)) + ds[Len(ds)]

\* GET user:ver:<u>
GetRoleVersion(u) ==
  IF userRoleVersion[u] = 0 THEN <<>> ELSE ToDigits(userRoleVersion[u])

\* JavaScript truthiness of a GET reply (null and "" are falsy)
Truthy(reply) == Len(reply) > 0

\* A key with a TTL is gone once the clock reaches its expiry instant.
LiveAlways(k) == TRUE

Live(k) == k.exists /\ (k.expireAt = NoTtl \/ clock < k.expireAt)

\* ------------------------------------------------------------------------
\* Code of the session store, expression by expression
\* ------------------------------------------------------------------------

\* createSession: `await redis.incr(userRoleVersion(userId)) - 1`
IssuedRoleVersion(incrReply) == incrReply - 1

\* createSession: the Session object literal
NewSession(p, now, absoluteTtl, idleTtl, roleVersion) ==
  [uid |-> p.userId, did |-> p.deviceId, iat |-> now, exp |-> now + absoluteTtl,
   idleExp |-> now + idleTtl, rc |-> 0, mfa |-> p.mfa, role |-> p.role,
   roleVersion |-> roleVersion]

\* createSession: `Math.min(idleTtl, absoluteTtl)`
CreateRedisTtl(idleTtl, absoluteTtl) == Min(idleTtl, absoluteTtl)

\* validateAndRefreshSession: `session.idleExp = currentTime + idleTtlSec`
RefreshedIdleExp(session, currentTime, idleTtlSec) == currentTime + idleTtlSec

\* validateAndRefreshSession: `Math.min(session.exp - currentTime, idleTtlSec)`
RefreshTtl(session, currentTime, idleTtlSec) ==
  Min(session.exp - currentTime, idleTtlSec)

\* validateAndRefreshSession: the role-version test on the pipeline's reply
\* `!roleVersionError && currentRoleVersion &&
\*   parseInt(currentRoleVersion) !== session.roleVersion`
RoleVersionMismatch(roleVersionError, currentRoleVersion, session) ==
  /\ ~roleVersionError
  /\ Truthy(currentRoleVersion)
  /\ ParseInt(currentRoleVersion) # session.roleVersion

\* SET key value EX ttl: the store rejects a TTL that is not positive
SetExAccepted(ttl) == ttl > 0

\* The effect of SET key value EX ttl at the store's current time
SetEx(keys, s, blob, ttl) ==
  IF SetExAccepted(ttl)
  THEN [keys EXCEPT ![s] = [exists |-> TRUE, blob |-> blob, expireAt |-> clock + ttl]]
  ELSE keys

\* The effect of SET key value KEEPTTL: an existing key keeps its expiry, a
\* missing key is created without one
SetKeepTtl(keys, s, blob) ==
  [keys EXCEPT ![s] = [exists |-> TRUE, blob |-> blob,
                       expireAt |-> IF keys[s].exists THEN keys[s].expireAt ELSE NoTtl]]

\* DEL over a set of session keys
DelKeys(keys, ss) == [s \in SessionIds |-> IF s \in ss THEN AbsentKey ELSE keys[s]]

\* SREM id from every index in us (us is empty when no user id is known)
SRem(index, us, s) == [u \in Users |-> IF u \in us THEN index[u] \ {s} ELSE index[u]]

\* ------------------------------------------------------------------------
\* History bookkeeping (not program state)
\* ------------------------------------------------------------------------

\* The sessions whose createSession for u has read the role version
IssuedTo(u) ==
  {s \in SessionIds : hist[s].stage \in {"verRead", "created"} /\ hist[s].uid = u}

Created(s) == hist[s].stage = "created"

MarkRevokedAll(h, ss) ==
  [s \in SessionIds |-> IF s \in ss THEN [h[s] EXCEPT !.revokedAll = TRUE] ELSE h[s]]

\* A revoke, revokeAll or role change that touches the sessions ss ends the
\* undisturbed run of every validation of them that is in flight
Disturb(tk, ss) ==
  [t \in Tasks |->
     IF tk[t].op = "validate" /\ tk[t].sid \in ss
     THEN [tk[t] EXCEPT !.clean = FALSE] ELSE tk[t]]

\* A role-version bump (updateUserRole, or the INCR of revokeAllUserSessions)
\* completed after the session's version was issued: the counter moved further
\* than the later createSession calls of the same subject account for
Bumped(s) ==
  /\ hist[s].stage \in {"verRead", "created"}
  /\ LET u == hist[s].uid
         later == {s2 \in IssuedTo(u) : hist[s2].rv > hist[s].rv}
     IN userRoleVersion[u] - (hist[s].rv + 1) - Cardinality(later) > 0

\* A validation of s has answered valid and its caller holds the result
\* (afterValid: a status check began in such a state)
AnsweredValid(s) ==
  \E t \in Tasks :
    /\ task[t].op = "validate" /\ task[t].pc = "done"
    /\ task[t].sid = s /\ task[t].res.valid

Finish(t, r) == task' = [task EXCEPT ![t] = [r EXCEPT !.pc = "done"]]
FinishIn(tk, t, r) == task' = [tk EXCEPT ![t] = [r EXCEPT !.pc = "done"]]

\* A new call is taken by the first task that is free (the tasks are
\* interchangeable request handlers)
Free(t) ==
  /\ task[t].op = "idle"
  /\ \A t2 \in Tasks : t2 < t => task[t2].op # "idle"

\* ------------------------------------------------------------------------
\* createSession(params)
\* ------------------------------------------------------------------------

\* generateSessionId(), now(), the TTL defaults; then the task awaits INCR
CreateStartCall(t, p, limit) ==
  /\ Free(t)
  /\ nextId <= limit
  /\ task' = [task EXCEPT ![t] =
        [IdleTask EXCEPT !.op = "create", !.pc = "incr", !.sid = nextId,
                         !.uid = p.userId, !.now = clock,
                         !.absTtl = OrDefault(p.absoluteTtlSec, DefaultAbsoluteTtl),
                         !.ttl = OrDefault(p.idleTtlSec, DefaultIdleTtl),
                         !.sess = [NullSession EXCEPT !.uid = p.userId,
                                     !.did = p.deviceId, !.mfa = p.mfa, !.role = p.role]]]
  /\ nextId' = nextId + 1
  /\ hist' = [hist EXCEPT ![nextId] = [NoHist EXCEPT !.uid = p.userId,
                                                      !.stage = "started"]]
  /\ UNCHANGED <<clock, sessKey, userSessions, deviceSessions, userRoleVersion>>

CreateStart(t, p) == CreateStartCall(t, p, MaxSessions) /\ UNCHANGED <<rlsVars, extVars>>

\* INCR user:ver:<u>; the session object is built from its reply
CreateIncr(t) ==
  /\ task[t].op = "create" /\ task[t].pc = "incr"
  /\ userRoleVersion[task[t].uid] < MaxVer
  /\ LET r == task[t]
         reply == userRoleVersion[r.uid] + 1
         p == [userId |-> r.uid, deviceId |-> r.sess.did, mfa |-> r.sess.mfa,
               role |-> r.sess.role]
     IN /\ userRoleVersion' = [userRoleVersion EXCEPT ![r.uid] = reply]
        /\ task' = [task EXCEPT ![t] =
              [r EXCEPT !.pc = "exec",
                        !.sess = NewSession(p, r.now, r.absTtl, r.ttl,
                                            IssuedRoleVersion(reply))]]
        /\ hist' = [hist EXCEPT ![r.sid].stage = "verRead",
                                ![r.sid].rv = IssuedRoleVersion(reply)]
  /\ UNCHANGED <<clock, sessKey, userSessions, deviceSessions, nextId, rlsVars, extVars>>

\* pipeline: SET sess:<id> EX ttl; SADD user:sess:<u>; SADD dev:sess:<d>
CreateExecStep(t) ==
  /\ task[t].op = "create" /\ task[t].pc = "exec"
  /\ LET r == task[t]
     IN /\ sessKey' = SetEx(sessKey, r.sid, r.sess, CreateRedisTtl(r.ttl, r.absTtl))
        /\ userSessions' = [userSessions EXCEPT ![r.uid] = @ \cup {r.sid}]
        /\ deviceSessions' =
             IF r.sess.did # ""
             THEN [deviceSessions EXCEPT ![r.sess.did] = @ \cup {r.sid}]
             ELSE deviceSessions
        /\ Finish(t, [r EXCEPT !.res = [valid |-> TRUE, reason |-> ""]])
        /\ hist' = [hist EXCEPT ![r.sid].stage = "created"]
  /\ UNCHANGED <<clock, userRoleVersion, nextId>>

CreateExec(t) == CreateExecStep(t) /\ UNCHANGED <<rlsVars, extVars>>

\* ------------------------------------------------------------------------
\* validateAndRefreshSession(sessionId, idleTtlSec)
\* ------------------------------------------------------------------------

\* `currentTime >= session.exp`
AbsoluteExpiredStrictly(session, currentTime) == currentTime > session.exp

AbsoluteExpired(session, currentTime) == currentTime >= session.exp

\* `currentTime >= session.idleExp`
IdleExpired(session, currentTime) == currentTime >= session.idleExp

\* `await redis.get(...)`: the store serves GET sess:<id>; `if (!sessionData)`
ValidateGetCall(t, s, idleTtlSec) ==
  /\ Free(t)
  /\ LET k == sessKey[s]
         r0 == [IdleTask EXCEPT !.op = "validate", !.sid = s, !.ttl = idleTtlSec,
                  !.clean = Created(s) /\ ~Bumped(s) /\ ~hist[s].revokedAll
                            /\ \A t2 \in Tasks : task[t2].op \in {"idle", "create"},
                  !.afterAll = hist[s].revokedAll,
                  !.afterBump = Bumped(s),
                  !.afterValid = idleTtlSec = StatusIdleTtl /\ AnsweredValid(s)]
     IN IF ~Live(k)
        THEN Finish(t, [r0 EXCEPT !.res = [NoResult EXCEPT !.reason = "not_found"]])
        ELSE task' = [task EXCEPT ![t] =
               [r0 EXCEPT !.pc = "got", !.found = TRUE, !.sess = k.blob,
                          !.uid = k.blob.uid]]
  /\ UNCHANGED <<clock, sessKey, userSessions, deviceSessions, userRoleVersion,
                 nextId, hist>>

ValidateGet(t, s, idleTtlSec) == ValidateGetCall(t, s, idleTtlSec) /\ UNCHANGED <<rlsVars, extVars>>

\* The reply of the GET is handled: JSON.parse, `currentTime = now()`, the
\* two expiry tests
ValidateNow(t) ==
  /\ task[t].op = "validate" /\ task[t].pc = "got"
  /\ LET r1 == [task[t] EXCEPT !.now = clock]
     IN task' = [task EXCEPT ![t] =
          IF AbsoluteExpired(r1.sess, clock)
          THEN [r1 EXCEPT !.pc = "revoke", !.res.reason = "expired"]
          ELSE IF IdleExpired(r1.sess, clock)
          THEN [r1 EXCEPT !.pc = "revoke", !.res.reason = "idle_expired"]
          ELSE [r1 EXCEPT !.pc = "exec"]]
  /\ UNCHANGED <<clock, sessKey, userSessions, deviceSessions, userRoleVersion,
                 nextId, hist, rlsVars, extVars>>

\* What the code does with the pipeline's two replies
ValidateAfterExec(t, refreshed, roleVersionError, sessionRefreshError, currentRoleVersion) ==
  LET r == [task[t] EXCEPT !.sess = refreshed, !.verErr = roleVersionError,
                           !.verReply = currentRoleVersion,
                           !.fault = roleVersionError \/ sessionRefreshError]
  IN task' = [task EXCEPT ![t] =
       IF RoleVersionMismatch(roleVersionError, currentRoleVersion, refreshed)
       THEN [r EXCEPT !.pc = "revoke", !.res.reason = "role_version_mismatch"]
       ELSE [r EXCEPT !.pc = "done",
                      !.res = [valid |-> TRUE, reason |-> ""]]]

\* pipeline: GET user:ver:<u>; SET sess:<id> <refreshed> EX newTtl
ValidateExec(t) ==
  /\ task[t].op = "validate" /\ task[t].pc = "exec"
  /\ LET r == task[t]
         refreshed == [r.sess EXCEPT !.idleExp = RefreshedIdleExp(r.sess, r.now, r.ttl)]
         newTtl == RefreshTtl(r.sess, r.now, r.ttl)
     IN /\ sessKey' = SetEx(sessKey, r.sid, refreshed, newTtl)
        /\ ValidateAfterExec(t, refreshed, FALSE, ~SetExAccepted(newTtl),
                             GetRoleVersion(r.uid))
  /\ UNCHANGED <<clock, userSessions, deviceSessions, userRoleVersion, nextId, hist, rlsVars, extVars>>

\* `await revokeSession(sessionId, session.uid)` on expiry or mismatch
ValidateRevoke(t) ==
  /\ task[t].op = "validate" /\ task[t].pc = "revoke"
  /\ LET r == task[t]
     IN /\ sessKey' = DelKeys(sessKey, {r.sid})
        /\ userSessions' = SRem(userSessions, {r.uid}, r.sid)
        /\ Finish(t, r)
  /\ UNCHANGED <<clock, deviceSessions, userRoleVersion, nextId, hist, rlsVars, extVars>>

\* ------------------------------------------------------------------------
\* rotateSession(sessionId)
\* ------------------------------------------------------------------------

\* GET sess:<id>; `session.rc += 1`
RotateGet(t, s) ==
  /\ Free(t)
  /\ sessKey[s].blob.rc < MaxRotations
  /\ LET k == sessKey[s]
         r0 == [IdleTask EXCEPT !.op = "rotate", !.sid = s]
     IN IF ~Live(k)
        THEN Finish(t, [r0 EXCEPT !.res = [NoResult EXCEPT !.reason = "null"]])
        ELSE task' = [task EXCEPT ![t] =
               [r0 EXCEPT !.pc = "set", !.found = TRUE, !.uid = k.blob.uid,
                          !.sess = [k.blob EXCEPT !.rc = @ + 1]]]
  /\ UNCHANGED <<clock, sessKey, userSessions, deviceSessions, userRoleVersion,
                 nextId, hist, rlsVars, extVars>>

\* SET sess:<id> <session> KEEPTTL
RotateSet(t) ==
  /\ task[t].op = "rotate" /\ task[t].pc = "set"
  /\ LET r == task[t]
     IN /\ sessKey' = SetKeepTtl(sessKey, r.sid, r.sess)
        /\ Finish(t, [r EXCEPT !.res = [valid |-> TRUE, reason |-> ""]])
  /\ UNCHANGED <<clock, userSessions, deviceSessions, userRoleVersion, nextId, hist, rlsVars, extVars>>

\* ------------------------------------------------------------------------
\* revokeSession(sessionId, userId?)
\* ------------------------------------------------------------------------

\* pipeline: DEL sess:<id>; SREM user:sess:<u> when a user id is known
RevokePipeline(t, r, s, us) ==
  /\ sessKey' = DelKeys(sessKey, {s})
  /\ userSessions' = SRem(userSessions, us, s)
  /\ FinishIn(Disturb(task, {s}), t, r)

\* userId supplied: the pipeline is the only store call
RevokeWithUserCall(t, s, u) ==
  /\ Free(t)
  /\ RevokePipeline(t, [IdleTask EXCEPT !.op = "revoke", !.sid = s, !.uid = u], s, {u})
  /\ UNCHANGED <<clock, deviceSessions, userRoleVersion, nextId, hist>>

RevokeWithUser(t, s, u) == RevokeWithUserCall(t, s, u) /\ UNCHANGED <<rlsVars, extVars>>

\* userId omitted: GET sess:<id> to find the owner
RevokeLookupCall(t, s) ==
  /\ Free(t)
  /\ LET k == sessKey[s]
     IN task' = [Disturb(task, {s}) EXCEPT ![t] =
          [IdleTask EXCEPT !.op = "revoke", !.pc = "exec", !.sid = s,
                           !.found = Live(k),
                           !.uid = IF Live(k) THEN k.blob.uid ELSE ""]]
  /\ UNCHANGED <<clock, sessKey, userSessions, deviceSessions, userRoleVersion,
                 nextId, hist>>

RevokeLookup(t, s) == RevokeLookupCall(t, s) /\ UNCHANGED <<rlsVars, extVars>>

RevokeExecStep(t) ==
  /\ task[t].op = "revoke" /\ task[t].pc = "exec"
  /\ LET r == task[t]
     IN RevokePipeline(t, r, r.sid, IF r.uid # "" THEN {r.uid} ELSE {})
  /\ UNCHANGED <<clock, deviceSessions, userRoleVersion, nextId, hist>>

RevokeExec(t) == RevokeExecStep(t) /\ UNCHANGED <<rlsVars, extVars>>

\* ------------------------------------------------------------------------
\* revokeAllUserSessions(userId)
\* ------------------------------------------------------------------------

\* SMEMBERS user:sess:<u>; `if (sessionIds.length === 0) return`
RevokeAllEnumerateCall(t, u) ==
  /\ Free(t)
  /\ LET r0 == [IdleTask EXCEPT !.op = "revokeAll", !.uid = u,
                   !.members = userSessions[u]]
     IN IF userSessions[u] = {}
        THEN /\ FinishIn(Disturb(task, IssuedTo(u)), t, r0)
             /\ hist' = MarkRevokedAll(hist, IssuedTo(u))
        ELSE /\ task' = [Disturb(task, IssuedTo(u)) EXCEPT ![t] =
                          [r0 EXCEPT !.pc = "exec", !.covered = IssuedTo(u)]]
             /\ hist' = hist
  /\ UNCHANGED <<clock, sessKey, userSessions, deviceSessions, userRoleVersion, nextId>>

RevokeAllEnumerate(t, u) == RevokeAllEnumerateCall(t, u) /\ UNCHANGED <<rlsVars, extVars>>

\* pipeline: DEL every enumerated sess:<id>; DEL user:sess:<u>; INCR user:ver:<u>
RevokeAllExec(t) ==
  /\ task[t].op = "revokeAll" /\ task[t].pc = "exec"
  /\ userRoleVersion[task[t].uid] < MaxVer
  /\ LET r == task[t]
     IN /\ sessKey' = DelKeys(sessKey, r.members)
        /\ userSessions' = [userSessions EXCEPT ![r.uid] = {}]
        /\ userRoleVersion' = [userRoleVersion EXCEPT ![r.uid] = @ + 1]
        /\ hist' = MarkRevokedAll(hist, r.covered)
        /\ FinishIn(Disturb(task, IssuedTo(r.uid)), t, r)
  /\ UNCHANGED <<clock, deviceSessions, nextId, rlsVars, extVars>>

\* ------------------------------------------------------------------------
\* updateUserRole(userId, newRole): INCR user:ver:<u>
\* ------------------------------------------------------------------------
UpdateUserRole(t, u) ==
  /\ Free(t)
  /\ userRoleVersion[u] < MaxVer
  /\ userRoleVersion' = [userRoleVersion EXCEPT ![u] = @ + 1]
  /\ FinishIn(Disturb(task, IssuedTo(u)), t, [IdleTask EXCEPT !.op = "updateRole", !.uid = u])
  /\ UNCHANGED <<clock, sessKey, userSessions, deviceSessions, nextId, hist, rlsVars, extVars>>

\* ------------------------------------------------------------------------
\* The caller takes the result; the clock advances; keys with a TTL expire
\* ------------------------------------------------------------------------
Return(t) ==
  /\ task[t].pc = "done"
  /\ task' = [task EXCEPT ![t] = IdleTask]
  /\ UNCHANGED <<clock, sessKey, userSessions, deviceSessions, userRoleVersion,
                 nextId, hist, rlsVars, extVars>>

\* The keys left once the store's clock shows `at`
ExpireKeys(keys, at) ==
  [s \in SessionIds |->
     IF keys[s].exists /\ keys[s].expireAt # NoTtl /\ keys[s].expireAt <= at
     THEN AbsentKey ELSE keys[s]]

Tick ==
  /\ clock < MaxTime
  /\ clock' = clock + 1
  /\ sessKey' = ExpireKeys(sessKey, clock + 1)
  /\ UNCHANGED <<userSessions, deviceSessions, userRoleVersion, nextId, task, hist, rlsVars, extVars>>

\* ------------------------------------------------------------------------
\* Specification of the session store with a store that answers every call
\* ------------------------------------------------------------------------
SessionInit ==
  /\ clock = 0
  /\ sessKey = [s \in SessionIds |-> AbsentKey]
  /\ userSessions = [u \in Users |-> {}]
  /\ deviceSessions = [d \in Devices |-> {}]
  /\ userRoleVersion = [u \in Users |-> 0]
  /\ nextId = 1
  /\ task = [t \in Tasks |-> IdleTask]
  /\ hist = [s \in SessionIds |-> NoHist]

\* ------------------------------------------------------------------------
\* Part 2: values of the database side
\* ------------------------------------------------------------------------
\* Connections of the pool (getDatabase: one pool shared by all callers)
Conns == {"c1", "c2"}

\* SQL text values: NULL or a text.  User ids are texts; a role list is a
\* text spelled as a sequence of characters so that position() can search it.
SqlNull == [state |-> "null", text |-> ""]
Txt(s) == [state |-> "text", text |-> s]
NoRolesSetting == [state |-> "null", text |-> <<>>]
RolesTxt(cs) == [state |-> "text", text |-> cs]
\* A transaction that has not executed SET LOCAL for a setting
NotSetLocal == [state |-> "unset", text |-> ""]
NotSetLocalRoles == [state |-> "unset", text |-> <<>>]

\* SQL's three truth values
SqlTrue == "true"
SqlFalse == "false"
SqlUnknown == "unknown"
Or3(a, b) ==
  IF a = SqlTrue \/ b = SqlTrue THEN SqlTrue
  ELSE IF a = SqlFalse /\ b = SqlFalse THEN SqlFalse ELSE SqlUnknown
And3(a, b) ==
  IF a = SqlFalse \/ b = SqlFalse THEN SqlFalse
  ELSE IF a = SqlTrue /\ b = SqlTrue THEN SqlTrue ELSE SqlUnknown

\* The spelling of the role names (RLSContext.roles)
RoleText ==
  [TRADER |-> <<"T", "R", "A", "D", "E", "R">>,
   COACH  |-> <<"C", "O", "A", "C", "H">>,
   ADMIN  |-> <<"A", "D", "M", "I", "N">>,
   SYSTEM |-> <<"S", "Y", "S", "T", "E", "M">>]
RoleNames == {"TRADER", "COACH", "ADMIN", "SYSTEM"}

\* context.roles.join(',')
RECURSIVE Join(_)
Join(roles) ==
  IF Len(roles) = 0 THEN <<>>
  ELSE IF Len(roles) = 1 THEN RoleText[roles[1]]
  ELSE RoleText[roles[1]] \o <<",">> \o Join(Tail(roles))

\* position(sub IN str): index of the first occurrence, 0 when there is none
Position(sub, str) ==
  LET hits == {i \in 1..(Len(str) - Len(sub) + 1) :
                 SubSeq(str, i, i + Len(sub) - 1) = sub}
  IN IF hits = {} THEN 0 ELSE CHOOSE i \in hits : \A j \in hits : i <= j

\* text::uuid and the uuid's output text: the cast accepts either letter
\* case and prints lower case; other texts raise an error.
SystemUuid == "00000000"
\* test_user_1 of app.test_rls_isolation (gen_random_uuid())
TestUser1 == "t1"
UuidIn(t) ==
  CASE t \in {"ua", "ub", "ad", TestUser1, SystemUuid} -> [err |-> FALSE, null |-> FALSE, v |-> t]
    [] t = "UA" -> [err |-> FALSE, null |-> FALSE, v |-> "ua"]
    [] OTHER -> [err |-> TRUE, null |-> FALSE, v |-> ""]
NullUuid == [err |-> FALSE, null |-> TRUE, v |-> ""]

\* The contexts callers pass to withRLS; withSystemContext and
\* withAdminContext build theirs.
SystemContext == [userId |-> SystemUuid, roles |-> <<"SYSTEM">>]
AdminContext(adminUserId) == [userId |-> adminUserId, roles |-> <<"ADMIN">>]
RlsContexts ==
  { [userId |-> "ua", roles |-> <<"TRADER">>],
    [userId |-> "ub", roles |-> <<"TRADER", "COACH">>],
    [userId |-> "UA", roles |-> <<"TRADER">>],
    [userId |-> "not-a-uuid", roles |-> <<"TRADER">>],
    AdminContext("ad"),
    SystemContext }
\* The owners a statement can name in portfolios.user_id
Owners == {"ua", "ub"}
\* The ids a statement can name in portfolios.id
RowIds == 1..(MaxRows + 1)
\* The role lists app.test_rls_isolation passes to app.set_auth
TestRoles == {"TRADER", "ADMIN"}

FreshConn ==
  [owner |-> 0,
   sessUserId |-> SqlNull, sessRoles |-> NoRolesSetting,
   txUserId |-> NotSetLocal, txRoles |-> NotSetLocalRoles]
NoContext == [userId |-> "", roles |-> <<>>]
IdleRTask ==
  [kind |-> "idle", pc |-> "idle", ctx |-> NoContext, c |-> "",
   stmt |-> "", pending |-> {}, deleted |-> {}, scanned |-> {}, rows |-> {},
   outcome |-> ""]

RlsInit ==
  /\ conn = [c \in Conns |-> FreshConn]
  /\ committed = {}
  /\ rtask = [t \in Tasks |-> IdleRTask]
  /\ rowSeq = 1

\* ------------------------------------------------------------------------
\* Part 3: values of user provisioning (app.provision_user, provisionUser)
\* ------------------------------------------------------------------------
\* (userId, email) pairs callers pass; u2 also arrives with u1's email
ProvisionInputs ==
  { [userId |-> "u1", email |-> "e1"],
    [userId |-> "u2", email |-> "e2"],
    [userId |-> "u2", email |-> "e1"] }

\* Requests to the login routes. POST /api/auth/login carries
\* supabaseAccessToken and deviceFingerprint in its body, GET
\* /api/auth/callback carries code, error and error_description in its
\* query. credential is the token or the code: "" (missing), "invalid" (the
\* identity provider refuses it) or "ok"; error and errorDescription are the
\* query parameters of that name, "" when absent; deviceFingerprint "" is a
\* body without one.
LoginRequests ==
  [route : {"POST"}, credential : {"", "invalid", "ok"},
   deviceFingerprint : {"", "d1"}, error : {""}, errorDescription : {""}]
    \cup [route : {"GET"}, credential : {"", "invalid", "ok"},
          deviceFingerprint : {""}, error : {""}, errorDescription : {""}]
    \cup [route : {"GET"}, credential : {"", "ok"}, deviceFingerprint : {""},
          error : {"access_denied", "server_error"},
          errorDescription : {"", "denied"}]

NoLoginRequest ==
  [route |-> "", credential |-> "", deviceFingerprint |-> "", error |-> "",
   errorDescription |-> ""]

\* A response of a login route: NextResponse.json(body, {status}) or
\* NextResponse.redirect(url). expiresAt is the decimal text of the number in
\* the body (<<>> when absent), app_session 0 and device_id "" a cookie that
\* is not set, error the error text of the body or the error parameter of
\* the redirect, message the message parameter of the redirect.
NoLoginResponse ==
  [kind |-> "", status |-> 0, success |-> FALSE, userId |-> "", role |-> "",
   expiresAt |-> <<>>, error |-> "", message |-> "", location |-> "",
   auth |-> "", newUser |-> FALSE, app_session |-> 0, device_id |-> ""]

NoUserRow == [id |-> "", email |-> ""]
IdlePTask ==
  [pc |-> "idle", userId |-> "", email |-> "", existed |-> FALSE,
   userIns |-> NoUserRow, lockEmail |-> "", pending |-> {},
   created |-> FALSE, portfolioId |-> 0, outcome |-> "",
   attempts |-> 0, answer |-> "", req |-> NoLoginRequest, deviceId |-> "",
   call |-> 0, resp |-> NoLoginResponse]

ProvInit ==
  /\ pUsers = {}
  /\ pPortfolios = {}
  /\ ptask = [t \in Tasks |-> IdlePTask]
  /\ pSeq = 1

\* ------------------------------------------------------------------------
\* Part 4 values: the authentication middleware (src/unnamed/part_005)
\* ------------------------------------------------------------------------
\* A pathname is the sequence of its segments: "/api/admin/users" is
\* <<"api", "admin", "users">> and "/" is <<"">>, so that the text of a
\* pathname is "/" followed by its segments joined with "/".
PROTECTED_ROUTES ==
  { <<"api", "portfolio">>, <<"api", "holdings">>, <<"api", "auth", "refresh">>,
    <<"api", "auth", "revoke">>, <<"api", "ws", "token">>, <<"dashboard">>,
    <<"portfolio">>, <<"holdings">>, <<"admin">> }

ADMIN_ROUTES == { <<"api", "admin">>, <<"api", "system">>, <<"admin">> }

PUBLIC_ROUTES ==
  { <<"api", "auth", "login">>, <<"api", "auth", "callback">>, <<"login">>,
    <<"signup">>, <<"forgot-password">>, <<"">>, <<"about">>, <<"pricing">> }

\* pathname === route || pathname.startsWith(route + '/')
RouteMatches(pathname, route) ==
  /\ Len(pathname) >= Len(route)
  /\ SubSeq(pathname, 1, Len(route)) = route

requiresAuth(pathname) ==
  IF \E route \in PUBLIC_ROUTES : RouteMatches(pathname, route)
  THEN FALSE
  ELSE \E route \in PROTECTED_ROUTES : RouteMatches(pathname, route)

requiresAdmin(pathname) == \E route \in ADMIN_ROUTES : RouteMatches(pathname, route)

\* pathname.startsWith('/api/')
IsApiPath(pathname) == Len(pathname) >= 2 /\ pathname[1] = "api"

MwPaths ==
  { <<"">>, <<"about">>, <<"login">>, <<"pricing", "team">>,
    <<"dashboard">>, <<"portfolio", "7">>, <<"holdings">>,
    <<"api", "portfolio">>, <<"api", "auth", "revoke">>, <<"api", "auth", "login">>,
    <<"admin">>, <<"admin", "users">>, <<"administrator">>,
    <<"api", "admin">>, <<"api", "admin", "users">>, <<"api", "system">>,
    <<"api", "system", "jobs">>, <<"api", "health">> }

\* The identity headers; "" stands for a header that is absent. The role
\* version travels as its decimal digits, <<>> when the header is absent.
AuthHeaderNames ==
  {"x-user-id", "x-device-id", "x-user-role", "x-role-version", "x-session-id",
   "x-mfa-verified"}

NoHeaders == [h \in AuthHeaderNames |-> IF h = "x-role-version" THEN <<>> ELSE ""]

\* What a client may send in the identity headers of its own request.
AdminHeaders ==
  [h \in AuthHeaderNames |->
     CASE h = "x-user-id" -> "u2"
       [] h = "x-device-id" -> "d9"
       [] h = "x-user-role" -> "ADMIN"
       [] h = "x-role-version" -> <<1>>
       [] h = "x-session-id" -> "forged"
       [] h = "x-mfa-verified" -> "true"]

IncompleteHeaders ==
  [h \in AuthHeaderNames |->
     CASE h = "x-user-id" -> "u2"
       [] h = "x-device-id" -> ""
       [] h = "x-user-role" -> "SYSTEM"
       [] h = "x-role-version" -> <<1>>
       [] h = "x-session-id" -> "forged"
       [] h = "x-mfa-verified" -> ""]

TraderHeaders ==
  [h \in AuthHeaderNames |->
     CASE h = "x-user-id" -> "u1"
       [] h = "x-device-id" -> "d1"
       [] h = "x-user-role" -> "TRADER"
       [] h = "x-role-version" -> <<1>>
       [] h = "x-session-id" -> "s1"
       [] h = "x-mfa-verified" -> "false"]

ClientHeaders == {NoHeaders, AdminHeaders, IncompleteHeaders}

NoAuthorization == [scheme |-> "", credentials |-> ""]

MwRequests ==
  [ pathname : MwPaths,
    cookie : {"", "s1"},
    authorization : {NoAuthorization, [scheme |-> "Bearer", credentials |-> "s2"],
                     [scheme |-> "Basic", credentials |-> "s2"],
                     [scheme |-> "bearer", credentials |-> "s2"]},
    headers : ClientHeaders ]

NoRequest ==
  [pathname |-> <<>>, cookie |-> "", authorization |-> NoAuthorization,
   headers |-> NoHeaders]

\* The fields of a Session the middleware reads; NoSession is a result
\* without a session.
NoSession == [uid |-> "", did |-> "", role |-> "", roleVersion |-> 0, mfa |-> FALSE]

\* The sessions and results the unit tests of the middleware prepare: they
\* replace validateAndRefreshSession by a function that resolves with a
\* prepared result (vi.mock, src/tests/unit/auth/middleware.test.ts 24-29)
MwSessions ==
  { [uid |-> "u1", did |-> "d1", role |-> "TRADER", roleVersion |-> 1, mfa |-> FALSE],
    [uid |-> "u1", did |-> "d1", role |-> "COACH", roleVersion |-> 2, mfa |-> TRUE],
    [uid |-> "u3", did |-> "d3", role |-> "ADMIN", roleVersion |-> 1, mfa |-> TRUE],
    [uid |-> "u4", did |-> "d4", role |-> "SYSTEM", roleVersion |-> 1, mfa |-> FALSE] }

\* A SessionValidationResult: accepted with its session, rejected with a
\* reason, or malformed (valid without a session, a session without valid).
ValidationResults ==
  [valid : {TRUE}, session : MwSessions, reason : {""}]
    \cup [valid : {FALSE}, session : {NoSession},
          reason : {"not_found", "expired", "role_version_mismatch", ""}]
    \cup [valid : {TRUE}, session : {NoSession}, reason : {""}]
    \cup [valid : {FALSE}, session : MwSessions, reason : {"expired"}]

NoValidation == [valid |-> FALSE, session |-> NoSession, reason |-> "none"]

\* Boolean.prototype.toString
BoolToString(b) == IF b THEN "true" ELSE "false"

NoResponse ==
  [kind |-> "", status |-> 0, code |-> "", location |-> "", returnUrl |-> <<>>,
   cookieDeleted |-> FALSE, headers |-> NoHeaders, forwarded |-> NoHeaders]

NoAuthContext ==
  [userId |-> "", deviceId |-> "", role |-> "", roleVersion |-> 0, mfa |-> FALSE,
   sessionId |-> ""]

\* call is the task that runs the request's validateAndRefreshSession, 0
\* before the store has served its GET
IdleMw ==
  [pc |-> "idle", req |-> NoRequest, sessionId |-> "", call |-> 0,
   result |-> NoValidation, threw |-> FALSE, resp |-> NoResponse,
   ctx |-> NoAuthContext]

MwInit == mw = IdleMw

\* ------------------------------------------------------------------------
\* Part 5 values: the revoke endpoint (src/src/app/api/auth/revoke/route.ts)
\* ------------------------------------------------------------------------
\* The identity headers a revoke request may arrive with.
EpHeaders == {NoHeaders, AdminHeaders, TraderHeaders}

\* scope "" is a body without scope (or one that is not JSON), cookie 0 a
\* request without the app_session cookie, userId "" a body without userId.
\* body "object" is a JSON object (or text that is not JSON, which the code
\* replaces by {}), body "null" the JSON literal null, which has no fields.
RevokeRequests ==
  [ body : {"object"},
    scope : {"", "current", "all", "user", "everyone"},
    userId : {"", "u1"},
    cookie : {0} \cup SessionIds,
    headers : EpHeaders ]
  \cup
  [ body : {"null"}, scope : {""}, userId : {""},
    cookie : {0} \cup SessionIds,
    headers : EpHeaders ]

NoRevokeRequest ==
  [body |-> "object", scope |-> "", userId |-> "", cookie |-> 0, headers |-> NoHeaders]

\* removed is the reply of the DEL sess:<id> the call sent (the number of
\* keys it removed), which the code does not look at.
IdleEp ==
  [pc |-> "idle", req |-> NoRevokeRequest, scope |-> "", ctx |-> NoAuthContext,
   call |-> "", removed |-> 0, status |-> 0, success |-> FALSE,
   sessionsRevoked |-> 0, cookiesCleared |-> FALSE]

EpInit == ep = [t \in Tasks |-> IdleEp]

\* ------------------------------------------------------------------------
\* Part 6 values: sessions over their whole life (expiry, store failures)
\* ------------------------------------------------------------------------
\* createSession parameters with short TTLs, so that both expiries are
\* reached, and one with a TTL the store does not accept.
ExpiryInputs ==
  { [userId |-> "u1", deviceId |-> "d1", role |-> "TRADER", mfa |-> FALSE,
     absoluteTtlSec |-> 2, idleTtlSec |-> 1] }

ExpiryIdleTtlInputs == {1, DefaultIdleTtl}

\* What createSession stored for the id, and how many validations of the
\* id have begun (2 stands for two or more).
NoWatch == [stored |-> FALSE, idleExp |-> 0, exp |-> 0, validations |-> 0, calledAt |-> 0]

WatchInit == watch = [s \in SessionIds |-> NoWatch]

\* ------------------------------------------------------------------------
\* Part 7 values: JWTTokenService, one-time tokens
\* (src/lib/auth/adapters/jwt-token-service.ts)
\* ------------------------------------------------------------------------
\* `Math.min(ttlSec, 300)`
MaxOneTimeTtl == 300
MsPerSecond == 1000
\* The service's clock advances by half seconds.
TokenTick == 500

\* TokenPayload: userId, role and any further keys ("" is an absent key);
\* a payload that verify() returned carries the jti of the token it came from.
TokenPayloads ==
  { [userId |-> "u1", role |-> "TRADER", jti |-> ""],
    [userId |-> "u1", role |-> "TRADER", jti |-> "x"],
    [userId |-> "u2", role |-> "ADMIN", jti |-> "x"] }

OneTimeTtls == {1, 400}
TokenSecrets == {"ws", "jwt"}
NoToken == [sub |-> "", role |-> "", iat |-> 0, exp |-> 0, jti |-> "", mac |-> ""]
NoStoredToken == [userId |-> "", role |-> "", expiresAt |-> -1]
FreshJtis == <<"j1", "j2", "j3">>
Jtis == {FreshJtis[i] : i \in 1..Len(FreshJtis)} \cup {"x"}
NoConsume ==
  [token |-> NoToken, ok |-> FALSE, payload |-> NoStoredToken, again |-> FALSE, at |-> 0]

TokInit ==
  tok = [now |-> 0,
         oneTimeTokens |-> [j \in Jtis |-> NoStoredToken],
         issues |-> 0,
         issued |-> {},
         consumed |-> {},
         last |-> NoConsume]

Init == SessionInit /\ RlsInit /\ ProvInit /\ MwInit /\ EpInit /\ WatchInit /\ TokInit

SessionNext ==
  \/ \E t \in Tasks, p \in CreateInputs : CreateStart(t, p)
  \/ \E t \in Tasks : CreateIncr(t)
  \/ \E t \in Tasks : CreateExec(t)
  \/ \E t \in Tasks, s \in SessionIds, i \in IdleTtlInputs : ValidateGet(t, s, i)
  \/ \E t \in Tasks : ValidateNow(t)
  \/ \E t \in Tasks : ValidateExec(t)
  \/ \E t \in Tasks : ValidateRevoke(t)
  \/ \E t \in Tasks, s \in SessionIds : RotateGet(t, s)
  \/ \E t \in Tasks : RotateSet(t)
  \/ \E t \in Tasks, s \in SessionIds, u \in Users : RevokeWithUser(t, s, u)
  \/ \E t \in Tasks, s \in SessionIds : RevokeLookup(t, s)
  \/ \E t \in Tasks : RevokeExec(t)
  \/ \E t \in Tasks, u \in Users : RevokeAllEnumerate(t, u)
  \/ \E t \in Tasks : RevokeAllExec(t)
  \/ \E t \in Tasks, u \in Users : UpdateUserRole(t, u)
  \/ \E t \in Tasks : Return(t)

Next == SessionNext \/ Tick

Spec == Init /\ [][Next]_vars

\* ------------------------------------------------------------------------
\* Store failures inside validateAndRefreshSession
\* ------------------------------------------------------------------------

\* `await redis.get(...)` rejects: the catch block answers not_found
ValidateGetFails(t, s, idleTtlSec) ==
  /\ Free(t)
  /\ Finish(t, [IdleTask EXCEPT !.op = "validate", !.sid = s, !.ttl = idleTtlSec,
                   !.now = clock, !.fault = TRUE,
                   !.afterAll = hist[s].revokedAll, !.afterBump = Bumped(s),
                   !.res = [NoResult EXCEPT !.reason = "not_found"]])
  /\ UNCHANGED <<clock, sessKey, userSessions, deviceSessions, userRoleVersion,
                 nextId, hist, rlsVars, extVars>>

\* `await pipeline.exec()` rejects, or resolves without the two replies: the
\* code answers not_found; the SET may or may not have reached the store
ValidateExecThrows(t, applied) ==
  /\ task[t].op = "validate" /\ task[t].pc = "exec"
  /\ LET r == task[t]
         refreshed == [r.sess EXCEPT !.idleExp = RefreshedIdleExp(r.sess, r.now, r.ttl)]
     IN /\ sessKey' = IF applied
                       THEN SetEx(sessKey, r.sid, refreshed, RefreshTtl(r.sess, r.now, r.ttl))
                       ELSE sessKey
        /\ Finish(t, [r EXCEPT !.sess = refreshed, !.fault = TRUE,
                                !.res = [NoResult EXCEPT !.reason = "not_found"]])
  /\ UNCHANGED <<clock, userSessions, deviceSessions, userRoleVersion, nextId, hist, rlsVars, extVars>>

\* The pipeline resolves, but the reply of GET user:ver:<u> and/or of the SET
\* is an error
ValidateExecReplyError(t, roleVersionError, sessionRefreshError) ==
  /\ task[t].op = "validate" /\ task[t].pc = "exec"
  /\ roleVersionError \/ sessionRefreshError
  /\ LET r == task[t]
         refreshed == [r.sess EXCEPT !.idleExp = RefreshedIdleExp(r.sess, r.now, r.ttl)]
     IN /\ sessKey' = IF sessionRefreshError
                       THEN sessKey
                       ELSE SetEx(sessKey, r.sid, refreshed, RefreshTtl(r.sess, r.now, r.ttl))
        /\ ValidateAfterExec(t, refreshed, roleVersionError, sessionRefreshError,
                             IF roleVersionError THEN <<>> ELSE GetRoleVersion(r.uid))
  /\ UNCHANGED <<clock, userSessions, deviceSessions, userRoleVersion, nextId, hist, rlsVars, extVars>>

\* revokeSession swallows a store error: the key stays, the reason is returned
ValidateRevokeFails(t) ==
  /\ task[t].op = "validate" /\ task[t].pc = "revoke"
  /\ Finish(t, task[t])
  /\ UNCHANGED <<clock, sessKey, userSessions, deviceSessions, userRoleVersion,
                 nextId, hist, rlsVars, extVars>>

FaultNext ==
  \/ \E t \in Tasks, s \in SessionIds, i \in IdleTtlInputs : ValidateGetFails(t, s, i)
  \/ \E t \in Tasks, applied \in BOOLEAN : ValidateExecThrows(t, applied)
  \/ \E t \in Tasks, e1 \in BOOLEAN, e2 \in BOOLEAN : ValidateExecReplyError(t, e1, e2)
  \/ \E t \in Tasks : ValidateRevokeFails(t)

NextFault == SessionNext \/ FaultNext

SpecFault == Init /\ [][NextFault]_vars

\* ------------------------------------------------------------------------
\* Part 2: settings, functions and policies of migrations/001_enable_rls.sql
\* ------------------------------------------------------------------------
\* SET LOCAL name = value: the value lives in the running transaction
SetLocalOnSession(cr, name, v) ==
  IF name = "app.user_id" THEN [cr EXCEPT !.sessUserId = v]
  ELSE [cr EXCEPT !.sessRoles = v]

SetLocal(cr, name, v) ==
  IF name = "app.user_id" THEN [cr EXCEPT !.txUserId = v]
  ELSE [cr EXCEPT !.txRoles = v]

\* COMMIT or ROLLBACK: the transaction's values are dropped; a setting the
\* session never had is left as the empty text
EndTransaction(cr) ==
  [cr EXCEPT
     !.sessUserId = IF cr.txUserId.state # "unset" /\ @.state = "null"
                    THEN Txt("") ELSE @,
     !.sessRoles = IF cr.txRoles.state # "unset" /\ @.state = "null"
                   THEN RolesTxt(<<>>) ELSE @,
     !.txUserId = NotSetLocal,
     !.txRoles = NotSetLocalRoles,
     !.owner = 0]

\* current_setting(name, true)
CurrentUserSetting(cr) ==
  IF cr.txUserId.state = "unset" THEN cr.sessUserId ELSE cr.txUserId
CurrentRolesSetting(cr) ==
  IF cr.txRoles.state = "unset" THEN cr.sessRoles ELSE cr.txRoles

\* app.current_user_id()
CurrentUserId(cr) ==
  LET s == CurrentUserSetting(cr)
  IN IF s.state = "null" THEN NullUuid
     ELSE IF s.text = "" THEN NullUuid
     ELSE UuidIn(s.text)

\* app.has_role(role_name)
HasRole(cr, role_name) ==
  LET s == CurrentRolesSetting(cr)
  IN IF s.state = "null" THEN SqlUnknown
     ELSE IF Position(RoleText[role_name], s.text) > 0 THEN SqlTrue
     ELSE SqlFalse

\* user_id = <uuid>
EqUuid(user_id, u) ==
  IF u.null THEN SqlUnknown
  ELSE IF user_id = u.v THEN SqlTrue ELSE SqlFalse

PortfoliosUsingAnyIdentity(cr, row) ==
  IF CurrentUserId(cr).null THEN SqlUnknown ELSE SqlTrue

\* portfolios_owner_access, USING; the coach branch selects from an empty set
PortfoliosUsing(cr, row) ==
  Or3(Or3(Or3(EqUuid(row.user_id, CurrentUserId(cr)),
              HasRole(cr, "ADMIN")),
          HasRole(cr, "SYSTEM")),
      And3(HasRole(cr, "COACH"), SqlFalse))

\* portfolios_owner_access, WITH CHECK
PortfoliosWithCheck(cr, row) ==
  Or3(Or3(EqUuid(row.user_id, CurrentUserId(cr)),
          HasRole(cr, "ADMIN")),
      HasRole(cr, "SYSTEM"))

\* SELECT * FROM portfolios on a connection: the rows the policy lets through
Visible(cr, table) == {r \in table : PortfoliosUsing(cr, r) = SqlTrue}

\* ------------------------------------------------------------------------
\* withRLS(context, operation)
\* ------------------------------------------------------------------------
RlsFree(t) ==
  /\ rtask[t].kind = "idle"
  /\ \A t2 \in Tasks : t2 < t => rtask[t2].kind # "idle"

\* db.transaction: a free connection of the pool, BEGIN
Begin(t, ctx, c) ==
  /\ RlsFree(t)
  /\ conn[c].owner = 0
  /\ conn' = [conn EXCEPT ![c].owner = t]
  /\ rtask' = [rtask EXCEPT ![t] =
        [IdleRTask EXCEPT !.kind = "withRLS", !.pc = "setUser",
                          !.ctx = ctx, !.c = c]]
  /\ UNCHANGED <<sessionVars, extVars, committed, rowSeq>>

\* SET LOCAL app.user_id = '<context.userId>'
SetLocalUserId(t) ==
  /\ rtask[t].pc = "setUser"
  /\ conn' = [conn EXCEPT ![rtask[t].c] =
        SetLocal(@, "app.user_id", Txt(rtask[t].ctx.userId))]
  /\ rtask' = [rtask EXCEPT ![t].pc = "setRoles"]
  /\ UNCHANGED <<sessionVars, extVars, committed, rowSeq>>

\* SET LOCAL app.roles = '<context.roles.join(',')>'
SetLocalRoles(t) ==
  /\ rtask[t].pc = "setRoles"
  /\ conn' = [conn EXCEPT ![rtask[t].c] =
        SetLocal(@, "app.roles", RolesTxt(Join(rtask[t].ctx.roles)))]
  /\ rtask' = [rtask EXCEPT ![t].pc = "verify"]
  /\ UNCHANGED <<sessionVars, extVars, committed, rowSeq>>

\* SELECT app.current_user_id(); a failed cast or a different text throws
Verify(t) ==
  /\ rtask[t].pc = "verify"
  /\ LET actual == CurrentUserId(conn[rtask[t].c])
         matches == ~actual.err /\ ~actual.null /\ actual.v = rtask[t].ctx.userId
     IN rtask' = [rtask EXCEPT ![t].pc = IF matches THEN "op" ELSE "rollback"]
  /\ UNCHANGED <<sessionVars, extVars, conn, committed, rowSeq>>

\* operation(tx): a read of the tenant table
\* The tenant table as the statements of the transaction of task t find it
TableIn(t) == (committed \ rtask[t].deleted) \cup rtask[t].pending

OpSelect(t) ==
  /\ rtask[t].pc = "op"
  /\ LET table == TableIn(t)
     IN rtask' = [rtask EXCEPT ![t].stmt = "select",
                               ![t].scanned = table,
                               ![t].rows = Visible(conn[rtask[t].c], table)]
  /\ UNCHANGED <<sessionVars, extVars, conn, committed, rowSeq>>

\* operation(tx): an insert into the tenant table; a row the policy's
\* WITH CHECK does not accept raises, and the error leaves operation
OpInsert(t, o) ==
  /\ rtask[t].pc = "op"
  /\ rowSeq <= MaxRows
  /\ LET row == [id |-> rowSeq, user_id |-> o]
         accepted == PortfoliosWithCheck(conn[rtask[t].c], row) = SqlTrue
     IN rtask' = [rtask EXCEPT
           ![t].stmt = "insert",
           ![t].pending = IF accepted THEN @ \cup {row} ELSE @,
           ![t].pc = IF accepted THEN "op" ELSE "rollback"]
  /\ rowSeq' = rowSeq + 1
  /\ UNCHANGED <<sessionVars, extVars, conn, committed>>

\* operation(tx) of deletePortfolio: DELETE FROM portfolios WHERE id = ...
\* RETURNING removes the row when the policy's USING lets it through;
\* `if (deletedPortfolio.length === 0) throw`.  The statement waits while
\* another open transaction has deleted the row.  executeRawSQL runs the
\* same statement without the test on the returned rows (raw).
OpDelete(t, id, raw) ==
  /\ rtask[t].pc = "op"
  /\ \A t2 \in Tasks \ {t} : \A r \in rtask[t2].deleted : r.id # id
  /\ LET deletedPortfolio == {r \in Visible(conn[rtask[t].c], TableIn(t)) : r.id = id}
     IN rtask' = [rtask EXCEPT
           ![t].stmt = IF deletedPortfolio = {} THEN "DELETE 0" ELSE "DELETE 1",
           ![t].deleted = @ \cup (deletedPortfolio \cap committed),
           ![t].pending = @ \ deletedPortfolio,
           ![t].pc = IF deletedPortfolio = {} /\ ~raw THEN "rollback" ELSE "op"]
  /\ UNCHANGED <<sessionVars, extVars, conn, committed, rowSeq>>

\* COALESCE(array_to_string(p_roles, ','), '') and COALESCE(p_user_id::text, '')
\* of app.set_auth, with set_config(..., is_local = true)
SetAuth(cr, p_user_id, p_roles) ==
  SetLocal(SetLocal(cr, "app.user_id", Txt(p_user_id)),
           "app.roles", RolesTxt(Join(p_roles)))

\* operation(tx) of testRLSIsolation, run by withSystemContext:
\* app.test_rls_isolation performs app.set_auth(test_user_1, ARRAY[role])
OpSetAuth(t, role) ==
  /\ rtask[t].pc = "op"
  /\ rtask[t].ctx = SystemContext
  /\ conn' = [conn EXCEPT ![rtask[t].c] = SetAuth(@, TestUser1, <<role>>)]
  /\ rtask' = [rtask EXCEPT ![t].stmt = "set_auth"]
  /\ UNCHANGED <<sessionVars, extVars, committed, rowSeq>>

\* operation(tx) throws
OpThrow(t) ==
  /\ rtask[t].pc = "op"
  /\ rtask' = [rtask EXCEPT ![t].pc = "rollback"]
  /\ UNCHANGED <<sessionVars, extVars, conn, committed, rowSeq>>

\* operation(tx) returns
OpReturn(t) ==
  /\ rtask[t].pc = "op"
  /\ rtask' = [rtask EXCEPT ![t].pc = "commit"]
  /\ UNCHANGED <<sessionVars, extVars, conn, committed, rowSeq>>

\* COMMIT, the connection goes back to the pool
Commit(t) ==
  /\ rtask[t].pc = "commit"
  /\ committed' = TableIn(t)
  /\ conn' = [conn EXCEPT ![rtask[t].c] = EndTransaction(@)]
  /\ rtask' = [rtask EXCEPT ![t].pc = "done", ![t].outcome = "ok",
                            ![t].pending = {}, ![t].deleted = {}]
  /\ UNCHANGED <<sessionVars, extVars, rowSeq>>

RollbackKeepsWrites(t) ==
  /\ rtask[t].pc = "rollback"
  /\ committed' = TableIn(t)
  /\ conn' = [conn EXCEPT ![rtask[t].c] = EndTransaction(@)]
  /\ rtask' = [rtask EXCEPT ![t].pc = "done", ![t].outcome = "error",
                            ![t].pending = {}, ![t].deleted = {}]
  /\ UNCHANGED <<sessionVars, extVars, rowSeq>>

\* ROLLBACK, the connection goes back to the pool, the error is rethrown
Rollback(t) ==
  /\ rtask[t].pc = "rollback"
  /\ conn' = [conn EXCEPT ![rtask[t].c] = EndTransaction(@)]
  /\ rtask' = [rtask EXCEPT ![t].pc = "done", ![t].outcome = "error",
                            ![t].pending = {}, ![t].deleted = {}]
  /\ UNCHANGED <<sessionVars, extVars, committed, rowSeq>>

RlsReturn(t) ==
  /\ rtask[t].pc = "done"
  /\ rtask' = [rtask EXCEPT ![t] = IdleRTask]
  /\ UNCHANGED <<sessionVars, extVars, conn, committed, rowSeq>>

\* ------------------------------------------------------------------------
\* Statements issued on the pool outside withRLS (createAuthenticatedClient:
\* portfolio.getById, portfolio.getHoldings, user.getPortfolios,
\* user.createPortfolio), each its own transaction
\* ------------------------------------------------------------------------
RawSelect(t, c, o) ==
  /\ RlsFree(t)
  /\ conn[c].owner = 0
  /\ rtask' = [rtask EXCEPT ![t] =
        [IdleRTask EXCEPT
           !.kind = "raw", !.pc = "done", !.c = c, !.stmt = "select",
           !.scanned = committed,
           !.rows = {r \in Visible(conn[c], committed) : r.user_id = o},
           !.outcome = "ok"]]
  /\ UNCHANGED <<sessionVars, extVars, conn, committed, rowSeq>>

RawInsert(t, c, o) ==
  /\ RlsFree(t)
  /\ conn[c].owner = 0
  /\ rowSeq <= MaxRows
  /\ LET row == [id |-> rowSeq, user_id |-> o]
         accepted == PortfoliosWithCheck(conn[c], row) = SqlTrue
     IN /\ committed' = IF accepted THEN committed \cup {row} ELSE committed
        /\ rtask' = [rtask EXCEPT ![t] =
              [IdleRTask EXCEPT
                 !.kind = "raw", !.pc = "done", !.c = c, !.stmt = "insert",
                 !.outcome = IF accepted THEN "ok" ELSE "error"]]
  /\ rowSeq' = rowSeq + 1
  /\ UNCHANGED <<sessionVars, extVars, conn>>

NextRLS ==
  \/ \E t \in Tasks, ctx \in RlsContexts, c \in Conns : Begin(t, ctx, c)
  \/ \E t \in Tasks : SetLocalUserId(t)
  \/ \E t \in Tasks : SetLocalRoles(t)
  \/ \E t \in Tasks : Verify(t)
  \/ \E t \in Tasks : OpSelect(t)
  \/ \E t \in Tasks, o \in Owners : OpInsert(t, o)
  \/ \E t \in Tasks : OpThrow(t)
  \/ \E t \in Tasks : OpReturn(t)
  \/ \E t \in Tasks : Commit(t)
  \/ \E t \in Tasks : Rollback(t)
  \/ \E t \in Tasks : RlsReturn(t)
  \/ \E t \in Tasks, c \in Conns, o \in Owners : RawSelect(t, c, o)
  \/ \E t \in Tasks, c \in Conns, o \in Owners : RawInsert(t, c, o)

SpecRLS == Init /\ [][NextRLS]_vars

\* ------------------------------------------------------------------------
\* withRLS operations that insert and delete rows (createPortfolio,
\* deletePortfolio, executeRawSQL)
\* ------------------------------------------------------------------------
WriteContexts ==
  { [userId |-> "ua", roles |-> <<"TRADER">>],
    [userId |-> "not-a-uuid", roles |-> <<"TRADER">>] }

NextRLSWrite ==
  \/ \E t \in Tasks, ctx \in WriteContexts, c \in Conns : Begin(t, ctx, c)
  \/ \E t \in Tasks : SetLocalUserId(t)
  \/ \E t \in Tasks : SetLocalRoles(t)
  \/ \E t \in Tasks : Verify(t)
  \/ \E t \in Tasks : OpSelect(t)
  \/ \E t \in Tasks, o \in Owners : OpInsert(t, o)
  \/ \E t \in Tasks, id \in RowIds, raw \in BOOLEAN : OpDelete(t, id, raw)
  \/ \E t \in Tasks : OpThrow(t)
  \/ \E t \in Tasks : OpReturn(t)
  \/ \E t \in Tasks : Commit(t)
  \/ \E t \in Tasks : Rollback(t)
  \/ \E t \in Tasks : RlsReturn(t)

SpecRLSWrite == Init /\ [][NextRLSWrite]_vars

\* ------------------------------------------------------------------------
\* withSystemContext operations that bind another identity
\* (testRLSIsolation: app.test_rls_isolation calls app.set_auth)
\* ------------------------------------------------------------------------
SetAuthContexts ==
  { [userId |-> "ua", roles |-> <<"TRADER">>],
    [userId |-> "ub", roles |-> <<"TRADER", "COACH">>],
    SystemContext }

NextRLSSetAuth ==
  \/ \E t \in Tasks, ctx \in SetAuthContexts, c \in Conns : Begin(t, ctx, c)
  \/ \E t \in Tasks : SetLocalUserId(t)
  \/ \E t \in Tasks : SetLocalRoles(t)
  \/ \E t \in Tasks : Verify(t)
  \/ \E t \in Tasks : OpSelect(t)
  \/ \E t \in Tasks, o \in Owners : OpInsert(t, o)
  \/ \E t \in Tasks, role \in TestRoles : OpSetAuth(t, role)
  \/ \E t \in Tasks : OpThrow(t)
  \/ \E t \in Tasks : OpReturn(t)
  \/ \E t \in Tasks : Commit(t)
  \/ \E t \in Tasks : Rollback(t)
  \/ \E t \in Tasks : RlsReturn(t)

SpecRLSSetAuth == Init /\ [][NextRLSSetAuth]_vars

\* ------------------------------------------------------------------------
\* A pool or driver that acknowledges a SET LOCAL without binding the value
\* (the misbehaviour the re-read in withRLS is there to catch)
\* ------------------------------------------------------------------------
SetLocalUserIdLost(t) ==
  /\ rtask[t].pc = "setUser"
  /\ rtask' = [rtask EXCEPT ![t].pc = "setRoles"]
  /\ UNCHANGED <<sessionVars, extVars, conn, committed, rowSeq>>

SetLocalRolesLost(t) ==
  /\ rtask[t].pc = "setRoles"
  /\ rtask' = [rtask EXCEPT ![t].pc = "verify"]
  /\ UNCHANGED <<sessionVars, extVars, conn, committed, rowSeq>>

\* The contexts of the calls that meet the misbehaving driver
FaultContexts == { [userId |-> "ua", roles |-> <<"TRADER">>], AdminContext("ad") }

NextRLSFault ==
  \/ \E t \in Tasks, ctx \in FaultContexts, c \in Conns : Begin(t, ctx, c)
  \/ \E t \in Tasks : SetLocalUserId(t)
  \/ \E t \in Tasks : SetLocalUserIdLost(t)
  \/ \E t \in Tasks : SetLocalRoles(t)
  \/ \E t \in Tasks : SetLocalRolesLost(t)
  \/ \E t \in Tasks : Verify(t)
  \/ \E t \in Tasks, o \in Owners : OpInsert(t, o)
  \/ \E t \in Tasks : OpThrow(t)
  \/ \E t \in Tasks : OpReturn(t)
  \/ \E t \in Tasks : Commit(t)
  \/ \E t \in Tasks : Rollback(t)
  \/ \E t \in Tasks : RlsReturn(t)

SpecRLSFault == Init /\ [][NextRLSFault]_vars

\* ------------------------------------------------------------------------
\* Part 3: provisionUser(userId, email, role) =
\*   withSystemContext(SELECT * FROM app.provision_user(...))
\* ------------------------------------------------------------------------
\* The connection state withSystemContext has bound when the function runs
SystemConn ==
  SetLocal(SetLocal(FreshConn, "app.user_id", Txt(SystemContext.userId)),
           "app.roles", RolesTxt(Join(SystemContext.roles)))

\* Rows a RETURNING clause yields: one for an inserted and for an updated
\* row, none when ON CONFLICT DO NOTHING skipped the row
ReturningRows(done) == IF done \in {"insert", "update"} THEN 1 ELSE 0

\* What INSERT INTO users ... ON CONFLICT (email) DO UPDATE does with the
\* committed table: update on an email conflict, unique violation on users_pkey,
\* insert otherwise
UpsertUserDoes(table, userId, email) ==
  IF \E r \in table : r.email = email THEN "update"
  ELSE IF \E r \in table : r.id = userId THEN "unique_violation"
  ELSE "insert"

\* What INSERT INTO portfolios ... ON CONFLICT DO NOTHING does: the only
\* unique index of portfolios is its primary key
InsertPortfolioDoes(table, row) ==
  IF \E r \in table : r.id = row.id THEN "nothing" ELSE "insert"

\* RETURNS TABLE(user_id uuid, portfolio_id uuid, created boolean): the
\* output columns are variables of the function body
ProvisionUserOutputs == {"user_id", "portfolio_id", "created"}

PortfolioColumns ==
  {"id", "user_id", "name", "total_value", "last_recomputed", "created_at", "updated_at"}

\* A name in an SQL expression of the function body (plpgsql.variable_conflict
\* = error, the default)
ResolveReference(name) ==
  IF name \in ProvisionUserOutputs /\ name \in PortfolioColumns THEN "ambiguous"
  ELSE IF name \in PortfolioColumns THEN "column"
  ELSE "variable"

\* SELECT id INTO v_portfolio_id FROM portfolios WHERE user_id = p_user_id
\* ORDER BY created_at ASC LIMIT 1: the reference user_id is ambiguous and
\* the statement raises; id 0 stands for NULL
OldestPortfolio(table, userId) ==
  LET own == {r.id : r \in {x \in table : x.user_id = userId}}
  IN IF ResolveReference("user_id") = "ambiguous" THEN [raised |-> TRUE, id |-> 0]
     ELSE [raised |-> FALSE,
           id |-> IF own = {} THEN 0 ELSE CHOOSE i \in own : \A j \in own : i <= j]

PInFlight == {t \in Tasks : ptask[t].pc \notin {"idle", "done"}}

PFree(t) ==
  /\ ptask[t].pc = "idle"
  /\ \A t2 \in Tasks : t2 < t => ptask[t2].pc # "idle"

\* withSystemContext opens the transaction and binds the SYSTEM context
PBeginCall(inp) ==
  [IdlePTask EXCEPT !.pc = "upsert", !.userId = inp.userId,
                    !.email = inp.email, !.attempts = 1,
                    !.existed = \E r \in pUsers : r.id = inp.userId]

PBegin(t, inp) ==
  /\ PFree(t)
  /\ pSeq + Cardinality(PInFlight) <= MaxProvisioned
  /\ ptask' = [ptask EXCEPT ![t] = PBeginCall(inp)]
  /\ UNCHANGED <<sessionVars, rlsVars, mwVars, epVars, watchVars, tokVars, pUsers, pPortfolios, pSeq>>

\* INSERT INTO users ... ON CONFLICT (email) DO UPDATE ... RETURNING true
\* INTO v_user_created; IF NOT v_user_created THEN SELECT EXISTS(...).
\* The statement waits while another open transaction holds a row with its
\* email (the arbiter index of ON CONFLICT); when it inserts, also while
\* another open transaction holds an uncommitted row with its id (users_pkey).
PUpsertUser(t) ==
  /\ ptask[t].pc = "upsert"
  /\ \A t2 \in Tasks \ {t} : ptask[t2].lockEmail # ptask[t].email
  /\ UpsertUserDoes(pUsers, ptask[t].userId, ptask[t].email) # "update"
       => \A t2 \in Tasks \ {t} : ptask[t2].userIns.id # ptask[t].userId
  /\ LET p == ptask[t]
         does == UpsertUserDoes(pUsers, p.userId, p.email)
         returned == ReturningRows(does) > 0
         v_user_created == IF returned THEN TRUE
                           ELSE \E r \in pUsers : r.id = p.userId
     IN ptask' = [ptask EXCEPT ![t] =
          IF does = "unique_violation"
          THEN [p EXCEPT !.pc = "rollback"]
          ELSE [p EXCEPT !.pc = "portfolio",
                         !.lockEmail = p.email,
                         !.userIns = IF does = "insert"
                                     THEN [id |-> p.userId, email |-> p.email]
                                     ELSE NoUserRow,
                         !.created = v_user_created]]
  /\ UNCHANGED <<sessionVars, rlsVars, mwVars, epVars, watchVars, tokVars, pUsers, pPortfolios, pSeq>>

\* INSERT INTO portfolios ... ON CONFLICT DO NOTHING RETURNING id INTO
\* v_portfolio_id; IF v_portfolio_id IS NULL THEN SELECT the oldest one.
\* The row needs its users row (foreign key) and passes the SYSTEM policy.
PInsertPortfolio(t) ==
  /\ ptask[t].pc = "portfolio"
  /\ LET p == ptask[t]
         row == [id |-> pSeq, user_id |-> p.userId]
         table == pPortfolios \cup p.pending
         hasUser == \/ \E r \in pUsers : r.id = p.userId
                    \/ p.userIns.id = p.userId
         accepted == PortfoliosWithCheck(SystemConn, row) = SqlTrue
         does == InsertPortfolioDoes(table, row)
         oldest == OldestPortfolio(table, p.userId)
         v_portfolio_id == IF ReturningRows(does) > 0 THEN row.id ELSE oldest.id
     IN ptask' = [ptask EXCEPT ![t] =
          IF ~hasUser \/ ~accepted \/ (ReturningRows(does) = 0 /\ oldest.raised)
          THEN [p EXCEPT !.pc = "rollback"]
          ELSE [p EXCEPT !.pc = "commit",
                         !.pending = IF does = "insert" THEN @ \cup {row} ELSE @,
                         !.portfolioId = v_portfolio_id]]
  /\ pSeq' = pSeq + 1
  /\ UNCHANGED <<sessionVars, rlsVars, mwVars, epVars, watchVars, tokVars, pUsers, pPortfolios>>

\* RETURN QUERY; provisionUser takes rows[0]; COMMIT
PCommit(t) ==
  /\ ptask[t].pc = "commit"
  /\ pUsers' = IF ptask[t].userIns = NoUserRow THEN pUsers
               ELSE pUsers \cup {ptask[t].userIns}
  /\ pPortfolios' = pPortfolios \cup ptask[t].pending
  /\ ptask' = [ptask EXCEPT ![t].pc = "done", ![t].outcome = "ok",
                            ![t].userIns = NoUserRow, ![t].lockEmail = "",
                            ![t].pending = {}]
  /\ UNCHANGED <<sessionVars, rlsVars, mwVars, epVars, watchVars, tokVars, pSeq>>

\* The statement raised: ROLLBACK, provisionUser rejects
PRollback(t) ==
  /\ ptask[t].pc = "rollback"
  /\ ptask' = [ptask EXCEPT ![t].pc = "done", ![t].outcome = "error",
                            ![t].userIns = NoUserRow, ![t].lockEmail = "",
                            ![t].pending = {}, ![t].created = FALSE,
                            ![t].portfolioId = 0]
  /\ UNCHANGED <<sessionVars, rlsVars, mwVars, epVars, watchVars, tokVars, pUsers, pPortfolios, pSeq>>

PReturn(t) ==
  /\ ptask[t].pc = "done"
  /\ ptask' = [ptask EXCEPT ![t] = IdlePTask]
  /\ UNCHANGED <<sessionVars, rlsVars, mwVars, epVars, watchVars, tokVars, pUsers, pPortfolios, pSeq>>

NextProvision ==
  \/ \E t \in Tasks, inp \in ProvisionInputs : PBegin(t, inp)
  \/ \E t \in Tasks : PUpsertUser(t)
  \/ \E t \in Tasks : PInsertPortfolio(t)
  \/ \E t \in Tasks : PCommit(t)
  \/ \E t \in Tasks : PRollback(t)
  \/ \E t \in Tasks : PReturn(t)

SpecProvision == Init /\ [][NextProvision]_vars

\* ------------------------------------------------------------------------
\* The login route POST /api/auth/login (src/unnamed/part_011) and the OAuth
\* callback route GET /api/auth/callback (src/src/app/api/auth/callback/route.ts)
\* ------------------------------------------------------------------------
\* NextResponse.json({success: false, error}, {status})
LoginJsonError(status, error) ==
  [NoLoginResponse EXCEPT !.kind = "json", !.status = status, !.error = error]

\* NextResponse.redirect(new URL('/login', ...)) with the error and message
\* parameters
LoginRedirectError(error, message) ==
  [NoLoginResponse EXCEPT !.kind = "redirect", !.status = 307,
                          !.location = "/login", !.error = error,
                          !.message = message]

\* The first test of its route a request fails, "" when it passes them all:
\* the callback looks at the error parameter before it looks at the code
LoginRejection(req) ==
  IF req.route = "GET" /\ req.error # "" THEN "error"
  ELSE IF req.credential = "" THEN "missing"
  ELSE IF req.credential = "invalid" THEN "invalid"
  ELSE ""

\* POST /api/auth/login: the answer to a request that ends with the failure
LoginPostFailure(failure) ==
  CASE failure = "missing" -> LoginJsonError(400, "Missing access token")
    [] failure = "invalid" -> LoginJsonError(401, "Invalid authentication token")
    [] failure = "provisioning" -> LoginJsonError(500, "User provisioning failed")
    [] OTHER -> LoginJsonError(500, "Internal server error")

\* GET /api/auth/callback: the answer to a request that ends with the
\* failure. A provider error is passed on as it came, with
\* `errorDescription || 'Authentication failed'` as the message
LoginCallbackFailure(req, failure) ==
  CASE failure = "error" ->
         LoginRedirectError(req.error,
           IF req.errorDescription # "" THEN req.errorDescription
           ELSE "Authentication failed")
    [] failure = "missing" ->
         LoginRedirectError("missing_code", "Authorization code missing")
    [] failure = "invalid" ->
         LoginRedirectError("exchange_failed", "Failed to complete authentication")
    [] failure = "provisioning" ->
         LoginRedirectError("provisioning_failed", "Failed to set up user account")
    [] OTHER ->
         LoginRedirectError("callback_error", "Authentication callback failed")

\* The answer of a route to a request it ends with the given failure
LoginFailure(req, failure) ==
  IF req.route = "POST" THEN LoginPostFailure(failure)
  ELSE LoginCallbackFailure(req, failure)

\* `sessionResult.session.exp * 1000` as the decimal text of the JSON number
MillisecondsText(seconds) ==
  IF seconds = 0 THEN <<0>> ELSE ToDigits(seconds) \o <<0, 0, 0>>

\* A device id the route makes up: unique per call, here named after the
\* session id the call is about to draw
GeneratedDeviceId == IF nextId = 1 THEN "g1" ELSE "g2"

\* POST: `deviceFingerprint || crypto.randomUUID() + '-' + Date.now()`;
\* GET: `oauth-${crypto.randomUUID()}-${Date.now()}`
LoginDeviceId(req) ==
  IF req.route = "POST" /\ req.deviceFingerprint # "" THEN req.deviceFingerprint
  ELSE GeneratedDeviceId

\* The parameters both routes pass to createSession
LoginSessionParams(userId, deviceId) ==
  [userId |-> userId, deviceId |-> deviceId, role |-> "TRADER", mfa |-> FALSE,
   absoluteTtlSec |-> 30 * 24 * 60 * 60, idleTtlSec |-> 12 * 60 * 60]

\* The answer of a route whose createSession returned sessionId and session
LoginSuccess(p, sessionId, session) ==
  IF p.req.route = "POST"
  THEN [NoLoginResponse EXCEPT
          !.kind = "json", !.status = 200, !.success = TRUE, !.userId = p.userId,
          !.role = "TRADER", !.expiresAt = MillisecondsText(session.exp),
          !.app_session = sessionId,
          !.device_id = IF p.req.deviceFingerprint # "" THEN p.deviceId ELSE ""]
  ELSE [NoLoginResponse EXCEPT
          !.kind = "redirect", !.status = 307, !.location = "/dashboard",
          !.auth = "success", !.newUser = p.created,
          !.app_session = sessionId, !.device_id = p.deviceId]

\* Logins that have passed the credential test and not yet called createSession
LoginBeforeSession ==
  {t \in Tasks : ptask[t].pc \in {"upsert", "portfolio", "commit", "rollback", "done"}}

\* The route up to its await of provisionUser: a provider error and a
\* missing or refused credential are answered at once, otherwise
\* provisionUser is called with the identity the provider returned
LoginRequest(t, req, inp) ==
  /\ PFree(t)
  /\ IF LoginRejection(req) # ""
     THEN ptask' = [ptask EXCEPT ![t] =
            [IdlePTask EXCEPT
               !.pc = "answered", !.req = req, !.answer = "rejected",
               !.resp = LoginFailure(req, LoginRejection(req))]]
     ELSE /\ pSeq + Cardinality(PInFlight) <= MaxProvisioned
          /\ nextId + Cardinality(LoginBeforeSession) <= MaxIds
          /\ ptask' = [ptask EXCEPT ![t] = [PBeginCall(inp) EXCEPT !.req = req]]
  /\ UNCHANGED <<sessionVars, rlsVars, mwVars, epVars, watchVars, tokVars, pUsers, pPortfolios, pSeq>>

\* provisionUser rejected: the catch block answers 500 'User provisioning
\* failed' (POST) or redirects to /login?error=provisioning_failed (GET)
LoginProvisioningFailed(t) ==
  /\ ptask[t].pc = "done"
  /\ ptask[t].outcome # "ok"
  /\ ptask' = [ptask EXCEPT ![t].pc = "answered",
                            ![t].answer = "provisioning_failed",
                            ![t].resp = LoginFailure(ptask[t].req, "provisioning")]
  /\ UNCHANGED <<sessionVars, rlsVars, mwVars, epVars, watchVars, tokVars, pUsers, pPortfolios, pSeq>>

\* provisionUser resolved: the route picks the device id and calls
\* createSession, which runs up to its await of INCR
LoginCreateSession(t, c) ==
  /\ ptask[t].pc = "done"
  /\ ptask[t].outcome = "ok"
  /\ LET deviceId == LoginDeviceId(ptask[t].req)
     IN /\ CreateStartCall(c, LoginSessionParams(ptask[t].userId, deviceId), MaxIds)
        /\ ptask' = [ptask EXCEPT ![t].pc = "session", ![t].deviceId = deviceId,
                                  ![t].call = c]
  /\ UNCHANGED <<rlsVars, mwVars, epVars, watchVars, tokVars, pUsers, pPortfolios, pSeq>>

\* createSession has settled: the route builds its response and sets the
\* cookies; a rejection is caught by the outer catch block
LoginAnswer(t) ==
  /\ ptask[t].pc = "session"
  /\ LET c == ptask[t].call
     IN /\ task[c].op = "create" /\ task[c].pc = "done"
        /\ ptask' = [ptask EXCEPT
              ![t].pc = "answered",
              ![t].call = 0,
              ![t].answer = IF task[c].res.valid THEN "session" ELSE "error",
              ![t].resp = IF task[c].res.valid
                          THEN LoginSuccess(ptask[t], task[c].sid, task[c].sess)
                          ELSE LoginFailure(ptask[t].req, "internal")]
        /\ task' = [task EXCEPT ![c] = IdleTask]
  /\ UNCHANGED <<clock, sessKey, userSessions, deviceSessions, userRoleVersion,
                 nextId, hist, rlsVars, mwVars, epVars, watchVars, tokVars,
                 pUsers, pPortfolios, pSeq>>

\* The route returns its response
LoginDone(t) ==
  /\ ptask[t].pc = "answered"
  /\ ptask' = [ptask EXCEPT ![t] = IdlePTask]
  /\ UNCHANGED <<sessionVars, rlsVars, mwVars, epVars, watchVars, tokVars, pUsers, pPortfolios, pSeq>>

NextLogin ==
  \/ \E t \in Tasks, req \in LoginRequests, inp \in ProvisionInputs :
       LoginRequest(t, req, inp)
  \/ \E t \in Tasks : PUpsertUser(t)
  \/ \E t \in Tasks : PInsertPortfolio(t)
  \/ \E t \in Tasks : PCommit(t)
  \/ \E t \in Tasks : PRollback(t)
  \/ \E t \in Tasks : LoginProvisioningFailed(t)
  \/ \E t \in Tasks, c \in Tasks : LoginCreateSession(t, c)
  \/ \E t \in Tasks : CreateIncr(t)
  \/ \E t \in Tasks : CreateExec(t)
  \/ \E t \in Tasks : LoginAnswer(t)
  \/ \E t \in Tasks : LoginDone(t)

SpecLogin == Init /\ [][NextLogin]_vars

\* ------------------------------------------------------------------------
\* Part 4: authMiddleware and getAuthContext (src/unnamed/part_005)
\* ------------------------------------------------------------------------
extractSessionIdHeaderFirst(request) ==
  IF request.authorization.scheme = "Bearer" THEN request.authorization.credentials
  ELSE request.cookie

extractSessionId(request) ==
  IF request.cookie # "" THEN request.cookie
  ELSE IF request.authorization.scheme = "Bearer"
       THEN request.authorization.credentials
       ELSE ""

createAuthHeaders(session, sessionId) ==
  [h \in AuthHeaderNames |->
     CASE h = "x-user-id" -> session.uid
       [] h = "x-device-id" -> session.did
       [] h = "x-user-role" -> session.role
       [] h = "x-role-version" -> ToDigits(session.roleVersion)
       [] h = "x-session-id" -> sessionId
       [] h = "x-mfa-verified" -> BoolToString(session.mfa)]

createUnauthorizedResponse(reason, pathname) ==
  IF IsApiPath(pathname)
  THEN [NoResponse EXCEPT !.kind = "json", !.status = 401, !.code = "AUTH_REQUIRED"]
  ELSE [NoResponse EXCEPT !.kind = "redirect", !.status = 307,
                          !.location = "/login", !.returnUrl = pathname]

createForbiddenResponse(pathname, requiredRole, userRole) ==
  IF IsApiPath(pathname)
  THEN [NoResponse EXCEPT !.kind = "json", !.status = 403,
                          !.code = "INSUFFICIENT_PRIVILEGES"]
  ELSE [NoResponse EXCEPT !.kind = "redirect", !.status = 307,
                          !.location = "/access-denied"]

\* response.cookies.delete('app_session')
CookiesDelete(response) == [response EXCEPT !.cookieDeleted = TRUE]

\* NextResponse.next(): the request goes on to its handler with the headers
\* given for it, here the request's own.
NextResponseNext(requestHeaders) ==
  [NoResponse EXCEPT !.kind = "next", !.status = 200, !.forwarded = requestHeaders]

ResultValidOnly(result) == ~result.valid

\* if (!result.valid || !result.session)
ResultRejected(result) == ~result.valid \/ result.session = NoSession

\* session.role !== 'ADMIN' && session.role !== 'SYSTEM'
LacksAdminRole(role) == role # "ADMIN" /\ role # "SYSTEM"

getAuthContext(headers) ==
  IF \/ headers["x-user-id"] = ""
     \/ headers["x-device-id"] = ""
     \/ headers["x-user-role"] = ""
     \/ headers["x-role-version"] = <<>>
     \/ headers["x-session-id"] = ""
  THEN NoAuthContext
  ELSE [userId |-> headers["x-user-id"],
        deviceId |-> headers["x-device-id"],
        role |-> headers["x-user-role"],
        roleVersion |-> ParseInt(headers["x-role-version"]),
        mfa |-> (headers["x-mfa-verified"] = "true"),
        sessionId |-> headers["x-session-id"]]

\* authMiddleware up to its await: a path that needs no authentication goes
\* straight on, a request without a session id is answered, any other
\* request waits for validateAndRefreshSession.
MwRequest(request) ==
  /\ mw.pc = "idle"
  /\ LET sessionId == extractSessionId(request)
         m == [IdleMw EXCEPT !.req = request]
     IN mw' = IF ~requiresAuth(request.pathname)
              THEN [m EXCEPT !.pc = "responded",
                             !.resp = NextResponseNext(request.headers)]
              ELSE IF sessionId = ""
              THEN [m EXCEPT !.pc = "responded",
                             !.resp = createUnauthorizedResponse("No session ID",
                                                                 request.pathname)]
              ELSE [m EXCEPT !.pc = "validating", !.sessionId = sessionId]
  /\ UNCHANGED <<sessionVars, rlsVars, provVars, epVars, watchVars, tokVars>>

\* The session key a session id names: "s1" and "s2" are the ids 1 and 2 of
\* generateSessionId as they travel in a cookie or a header
SessionKeyOf(sessionId) == IF sessionId = "s1" THEN 1 ELSE 2

\* The fields of a stored session the middleware reads
SessionFields(session) ==
  [uid |-> session.uid, did |-> session.did, role |-> session.role,
   roleVersion |-> session.roleVersion, mfa |-> session.mfa]

\* The SessionValidationResult a finished validateAndRefreshSession call
\* resolves with: {valid: true, session} or {valid: false, reason}
ValidationResultOf(r) ==
  IF r.res.valid
  THEN [valid |-> TRUE, session |-> SessionFields(r.sess), reason |-> ""]
  ELSE [valid |-> FALSE, session |-> NoSession, reason |-> r.res.reason]

\* authMiddleware from `if (!result.valid || !result.session)` to its return
MwAnswer(result) ==
  LET pathname == mw.req.pathname
      session == result.session
  IN IF ResultRejected(result)
     THEN CookiesDelete(createUnauthorizedResponse(result.reason, pathname))
     ELSE IF requiresAdmin(pathname) /\ LacksAdminRole(session.role)
     THEN createForbiddenResponse(pathname, "ADMIN", session.role)
     ELSE [NextResponseNext(mw.req.headers) EXCEPT
             !.headers = createAuthHeaders(session, mw.sessionId)]

\* `await validateAndRefreshSession(sessionId)`: the store serves the GET of
\* the call the middleware made (idleTtlSec is left at its default)
MwValidateGet(t) ==
  /\ mw.pc = "validating"
  /\ mw.call = 0
  /\ ValidateGetCall(t, SessionKeyOf(mw.sessionId), DefaultIdleTtl)
  /\ mw' = [mw EXCEPT !.call = t]
  /\ UNCHANGED <<rlsVars, provVars, epVars, watchVars, tokVars>>

\* authMiddleware after its validateAndRefreshSession call has resolved.
MwValidationReturns(t) ==
  /\ mw.pc = "validating"
  /\ mw.call = t
  /\ task[t].op = "validate" /\ task[t].pc = "done"
  /\ LET result == ValidationResultOf(task[t])
     IN mw' = [mw EXCEPT !.pc = "responded", !.call = 0, !.result = result,
                         !.resp = MwAnswer(result)]
  /\ task' = [task EXCEPT ![t] = IdleTask]
  /\ UNCHANGED <<clock, sessKey, userSessions, deviceSessions, userRoleVersion,
                 nextId, hist, rlsVars, provVars, epVars, watchVars, tokVars>>

\* A caller of createSession takes its result.
MwCallerReturn(t) ==
  /\ mw.call # t
  /\ Return(t)

\* authMiddleware with validateAndRefreshSession replaced by a function that
\* resolves with a prepared result, as the unit tests run it: no store call
MwMockResolves(result) ==
  /\ mw.pc = "validating"
  /\ mw' = [mw EXCEPT !.pc = "responded", !.result = result,
                      !.resp = MwAnswer(result)]
  /\ UNCHANGED <<sessionVars, rlsVars, provVars, epVars, watchVars, tokVars>>

\* authMiddleware with validateAndRefreshSession replaced by a function that
\* rejects: the catch block.
MwMockRejects ==
  /\ mw.pc = "validating"
  /\ mw' = [mw EXCEPT !.pc = "responded", !.threw = TRUE,
                      !.resp = createUnauthorizedResponse("Authentication error",
                                                          mw.req.pathname)]
  /\ UNCHANGED <<sessionVars, rlsVars, provVars, epVars, watchVars, tokVars>>

\* The handler behind the middleware reads its identity with
\* getAuthContext(request), from the headers of the request it was given.
MwHandler ==
  /\ mw.pc = "responded"
  /\ mw.resp.kind = "next"
  /\ mw' = [mw EXCEPT !.pc = "handled", !.ctx = getAuthContext(mw.resp.forwarded)]
  /\ UNCHANGED <<sessionVars, rlsVars, provVars, epVars, watchVars, tokVars>>

MwDone ==
  /\ \/ mw.pc = "handled"
     \/ mw.pc = "responded" /\ mw.resp.kind # "next"
  /\ mw' = IdleMw
  /\ UNCHANGED <<sessionVars, rlsVars, provVars, epVars, watchVars, tokVars>>

\* The middleware in front of the session store; the store may answer the
\* validation's pipeline with error replies
NextMiddleware ==
  \/ \E t \in Tasks, p \in CreateInputs : CreateStart(t, p)
  \/ \E t \in Tasks : CreateIncr(t)
  \/ \E t \in Tasks : CreateExec(t)
  \/ \E t \in Tasks : MwCallerReturn(t)
  \/ \E request \in MwRequests : MwRequest(request)
  \/ \E t \in Tasks : MwValidateGet(t)
  \/ \E t \in Tasks : ValidateNow(t)
  \/ \E t \in Tasks : ValidateExec(t)
  \/ \E t \in Tasks, e1 \in BOOLEAN, e2 \in BOOLEAN : ValidateExecReplyError(t, e1, e2)
  \/ \E t \in Tasks : ValidateRevoke(t)
  \/ \E t \in Tasks : MwValidationReturns(t)
  \/ MwHandler
  \/ MwDone
  \/ Tick

SpecMiddleware == Init /\ [][NextMiddleware]_vars

\* The middleware as its unit tests run it, with the validation replaced
NextMiddlewareMock ==
  \/ \E request \in MwRequests : MwRequest(request)
  \/ \E result \in ValidationResults : MwMockResolves(result)
  \/ MwMockRejects
  \/ MwHandler
  \/ MwDone

SpecMiddlewareMock == Init /\ [][NextMiddlewareMock]_vars

\* ------------------------------------------------------------------------
\* Part 5: POST /api/auth/revoke
\* ------------------------------------------------------------------------
\* NextResponse.json({success: false, sessionsRevoked: 0, error}, {status})
EpError(request, scope, authContext, status) ==
  [IdleEp EXCEPT !.pc = "done", !.req = request, !.scope = scope,
                 !.ctx = authContext, !.status = status]

EpCalling(request, scope, authContext, call, removed) ==
  [IdleEp EXCEPT !.pc = "call", !.req = request, !.scope = scope,
                 !.ctx = authContext, !.call = call, !.removed = removed]

\* !authContext || (authContext.role !== 'ADMIN' && authContext.role !== 'SYSTEM')
NotAdminContextRoleOnly(authContext) == authContext.role = "TRADER"

NotAdminContext(authContext) ==
  authContext = NoAuthContext \/ (authContext.role # "ADMIN" /\ authContext.role # "SYSTEM")

DelReply(s) == IF Live(sessKey[s]) THEN 1 ELSE 0

\* POST up to its first await on the store: the body and the cookie are
\* read, the identity context is taken from the request headers, and the
\* request is either answered or the revocation is called.
EpPost(t, request) ==
  /\ ep[t].pc = "idle"
  /\ Free(t)
  /\ LET scope == IF request.scope = "" THEN "current" ELSE request.scope
         sessionId == request.cookie
         authContext == getAuthContext(request.headers)
         targetUserId == request.userId
     IN IF request.body = "null"
        THEN \* `const { scope = 'current', ... } = body` throws; the catch answers
             /\ ep' = [ep EXCEPT ![t] = EpError(request, "", NoAuthContext, 500)]
             /\ UNCHANGED sessionVars
        ELSE IF sessionId = 0 /\ scope = "current"
        THEN /\ ep' = [ep EXCEPT ![t] = EpError(request, scope, authContext, 400)]
             /\ UNCHANGED sessionVars
        ELSE IF scope = "current"
        THEN IF authContext.userId # ""
             THEN /\ ep' = [ep EXCEPT ![t] =
                       EpCalling(request, scope, authContext, "revokeSession",
                                 DelReply(sessionId))]
                  /\ RevokeWithUserCall(t, sessionId, authContext.userId)
             ELSE /\ ep' = [ep EXCEPT ![t] =
                       EpCalling(request, scope, authContext, "revokeSession", 0)]
                  /\ RevokeLookupCall(t, sessionId)
        ELSE IF scope = "all"
        THEN IF authContext.userId = ""
             THEN /\ ep' = [ep EXCEPT ![t] = EpError(request, scope, authContext, 401)]
                  /\ UNCHANGED sessionVars
             ELSE /\ ep' = [ep EXCEPT ![t] =
                       EpCalling(request, scope, authContext, "revokeAllUserSessions", 0)]
                  /\ RevokeAllEnumerateCall(t, authContext.userId)
        ELSE IF scope = "user"
        THEN IF NotAdminContext(authContext)
             THEN /\ ep' = [ep EXCEPT ![t] = EpError(request, scope, authContext, 403)]
                  /\ UNCHANGED sessionVars
             ELSE IF targetUserId = ""
             THEN /\ ep' = [ep EXCEPT ![t] = EpError(request, scope, authContext, 400)]
                  /\ UNCHANGED sessionVars
             ELSE /\ ep' = [ep EXCEPT ![t] =
                       EpCalling(request, scope, authContext, "revokeAllUserSessions", 0)]
                  /\ RevokeAllEnumerateCall(t, targetUserId)
        ELSE /\ ep' = [ep EXCEPT ![t] = EpError(request, scope, authContext, 400)]
             /\ UNCHANGED sessionVars
  /\ UNCHANGED <<rlsVars, provVars, mwVars, watchVars, tokVars>>

\* The pipeline of a revokeSession that had to look the owner up first.
EpRevokeExec(t) ==
  /\ ep[t].pc = "call"
  /\ RevokeExecStep(t)
  /\ ep' = [ep EXCEPT ![t].removed = DelReply(task[t].sid)]
  /\ UNCHANGED <<rlsVars, provVars, mwVars, watchVars, tokVars>>

\* The awaited call has returned: sessionsRevoked is set and the success
\* response is built.
EpRespond(t) ==
  /\ ep[t].pc = "call"
  /\ task[t].pc = "done"
  /\ ep' = [ep EXCEPT ![t] =
        [@ EXCEPT !.pc = "done", !.status = 200, !.success = TRUE,
                  !.sessionsRevoked = IF ep[t].scope = "current" THEN 1 ELSE -1,
                  !.cookiesCleared = (ep[t].scope \in {"current", "all"})]]
  /\ task' = [task EXCEPT ![t] = IdleTask]
  /\ UNCHANGED <<clock, sessKey, userSessions, deviceSessions, userRoleVersion,
                 nextId, hist, rlsVars, provVars, mwVars, watchVars, tokVars>>

EpDone(t) ==
  /\ ep[t].pc = "done"
  /\ ep' = [ep EXCEPT ![t] = IdleEp]
  /\ UNCHANGED <<sessionVars, rlsVars, provVars, mwVars, watchVars, tokVars>>

\* A caller of createSession takes its result.
EpCallerReturn(t) ==
  /\ ep[t].pc = "idle"
  /\ Return(t)

NextRevoke ==
  \/ \E t \in Tasks, p \in CreateInputs : CreateStart(t, p)
  \/ \E t \in Tasks : CreateIncr(t)
  \/ \E t \in Tasks : CreateExec(t)
  \/ \E t \in Tasks : EpCallerReturn(t)
  \/ \E t \in Tasks, request \in RevokeRequests : EpPost(t, request)
  \/ \E t \in Tasks : EpRevokeExec(t)
  \/ \E t \in Tasks : RevokeAllExec(t)
  \/ \E t \in Tasks : EpRespond(t)
  \/ \E t \in Tasks : EpDone(t)

SpecRevoke == Init /\ [][NextRevoke]_vars

\* ------------------------------------------------------------------------
\* Part 5b: POST /api/auth/revoke while the store refuses commands
\* ------------------------------------------------------------------------
\* The call of revokeSession / revokeAllUserSessions after its store call
\* rejected: the `catch` logs the error and the function returns.
RevocationCaught(op, s, u) ==
  [IdleTask EXCEPT !.op = op, !.pc = "done", !.sid = s, !.uid = u, !.fault = TRUE]

\* The app_session cookie of a request: none, or the id a completed
\* createSession returned to its caller
IssuedCookie(c) ==
  IF c = 0 THEN TRUE
  ELSE /\ hist[c].stage = "created"
       /\ \A t \in Tasks : ~(task[t].op = "create" /\ task[t].sid = c)

\* POST with such a cookie
EpPostIssued(t, request) ==
  /\ IssuedCookie(request.cookie)
  /\ EpPost(t, request)

\* POST whose revocation is called and whose first store call rejects:
\* the pipeline of revokeSession(sessionId, userId), the GET of
\* revokeSession(sessionId), the SMEMBERS of revokeAllUserSessions.
EpPostStoreFails(t, request) ==
  /\ request.body = "object"
  /\ IssuedCookie(request.cookie)
  /\ ep[t].pc = "idle"
  /\ Free(t)
  /\ LET scope == IF request.scope = "" THEN "current" ELSE request.scope
         sessionId == request.cookie
         authContext == getAuthContext(request.headers)
         targetUserId == request.userId
     IN \/ /\ scope = "current" /\ sessionId # 0
           /\ ep' = [ep EXCEPT ![t] =
                EpCalling(request, scope, authContext, "revokeSession", 0)]
           /\ task' = [task EXCEPT ![t] =
                RevocationCaught("revoke", sessionId, authContext.userId)]
        \/ /\ scope = "all" /\ authContext.userId # ""
           /\ ep' = [ep EXCEPT ![t] =
                EpCalling(request, scope, authContext, "revokeAllUserSessions", 0)]
           /\ task' = [task EXCEPT ![t] =
                RevocationCaught("revokeAll", 0, authContext.userId)]
        \/ /\ scope = "user" /\ ~NotAdminContext(authContext) /\ targetUserId # ""
           /\ ep' = [ep EXCEPT ![t] =
                EpCalling(request, scope, authContext, "revokeAllUserSessions", 0)]
           /\ task' = [task EXCEPT ![t] =
                RevocationCaught("revokeAll", 0, targetUserId)]
  /\ UNCHANGED <<clock, sessKey, userSessions, deviceSessions, userRoleVersion,
                 nextId, hist, rlsVars, provVars, mwVars, watchVars, tokVars>>

\* `await pipeline.exec()` of revokeSession rejects after the owner lookup
EpRevokeExecFails(t) ==
  /\ ep[t].pc = "call"
  /\ task[t].op = "revoke" /\ task[t].pc = "exec"
  /\ Finish(t, [task[t] EXCEPT !.fault = TRUE])
  /\ UNCHANGED <<clock, sessKey, userSessions, deviceSessions, userRoleVersion,
                 nextId, hist, rlsVars, extVars>>

\* `await pipeline.exec()` of revokeAllUserSessions rejects
RevokeAllExecFails(t) ==
  /\ task[t].op = "revokeAll" /\ task[t].pc = "exec"
  /\ Finish(t, [task[t] EXCEPT !.fault = TRUE])
  /\ UNCHANGED <<clock, sessKey, userSessions, deviceSessions, userRoleVersion,
                 nextId, hist, rlsVars, extVars>>

NextRevokeFault ==
  \/ \E t \in Tasks, p \in CreateInputs : CreateStart(t, p)
  \/ \E t \in Tasks : CreateIncr(t)
  \/ \E t \in Tasks : CreateExec(t)
  \/ \E t \in Tasks : EpCallerReturn(t)
  \/ \E t \in Tasks, request \in RevokeRequests : EpPostIssued(t, request)
  \/ \E t \in Tasks, request \in RevokeRequests : EpPostStoreFails(t, request)
  \/ \E t \in Tasks : EpRevokeExec(t)
  \/ \E t \in Tasks : EpRevokeExecFails(t)
  \/ \E t \in Tasks : RevokeAllExec(t)
  \/ \E t \in Tasks : RevokeAllExecFails(t)
  \/ \E t \in Tasks : EpRespond(t)
  \/ \E t \in Tasks : EpDone(t)

SpecRevokeFault == Init /\ [][NextRevokeFault]_vars

\* ------------------------------------------------------------------------
\* Part 6: a session from createSession to its expiries
\* ------------------------------------------------------------------------
LateCreateExec(t) ==
  /\ CreateExecStep(t)
  /\ watch' = [watch EXCEPT ![task[t].sid] =
        [NoWatch EXCEPT !.stored = TRUE, !.idleExp = task[t].sess.idleExp,
                        !.exp = task[t].sess.exp]]
  /\ UNCHANGED <<rlsVars, provVars, mwVars, epVars, tokVars>>

LateValidateGet(t, s, idleTtlSec) ==
  /\ ValidateGetCall(t, s, idleTtlSec)
  /\ watch' = [watch EXCEPT ![s].validations = Min(@ + 1, 2),
                              ![s].calledAt = IF watch[s].validations = 0 THEN clock ELSE @]
  /\ UNCHANGED <<rlsVars, provVars, mwVars, epVars, tokVars>>

\* The clock advances up to the horizon of this part.
LateTick ==
  /\ clock < MaxLateTime
  /\ clock' = clock + 1
  /\ sessKey' = ExpireKeys(sessKey, clock + 1)
  /\ UNCHANGED <<userSessions, deviceSessions, userRoleVersion, nextId, task, hist,
                 rlsVars, extVars>>

NextExpiry ==
  \/ \E t \in Tasks, p \in ExpiryInputs : CreateStart(t, p)
  \/ \E t \in Tasks : CreateIncr(t)
  \/ \E t \in Tasks : LateCreateExec(t)
  \/ \E t \in Tasks, s \in SessionIds, i \in ExpiryIdleTtlInputs : LateValidateGet(t, s, i)
  \/ \E t \in Tasks : ValidateNow(t)
  \/ \E t \in Tasks : ValidateExec(t)
  \/ \E t \in Tasks, e2 \in BOOLEAN : ValidateExecReplyError(t, TRUE, e2)
  \/ \E t \in Tasks : ValidateRevoke(t)
  \/ \E t \in Tasks, s \in SessionIds : RotateGet(t, s)
  \/ \E t \in Tasks : RotateSet(t)
  \/ \E t \in Tasks : Return(t)
  \/ LateTick

SpecExpiry == Init /\ [][NextExpiry]_vars

\* ------------------------------------------------------------------------
\* Part 6b: store failures inside createSession
\* ------------------------------------------------------------------------
\* createSession parameters; the last asks for a TTL the store refuses
\* (`params.absoluteTtlSec || default` keeps any number but 0).
CreateFaultInputs ==
  { [userId |-> "u1", deviceId |-> "d1", role |-> "TRADER", mfa |-> FALSE,
     absoluteTtlSec |-> 0, idleTtlSec |-> 0],
    [userId |-> "u2", deviceId |-> "", role |-> "ADMIN", mfa |-> TRUE,
     absoluteTtlSec |-> 2, idleTtlSec |-> 1],
    [userId |-> "u1", deviceId |-> "d1", role |-> "TRADER", mfa |-> FALSE,
     absoluteTtlSec |-> -5, idleTtlSec |-> 0] }

Thrown == [NoResult EXCEPT !.reason = "throws"]

\* `await redis.incr(...)` rejects: createSession rejects, nothing is written
CreateIncrFails(t) ==
  /\ task[t].op = "create" /\ task[t].pc = "incr"
  /\ Finish(t, [task[t] EXCEPT !.fault = TRUE, !.res = Thrown])
  /\ UNCHANGED <<clock, sessKey, userSessions, deviceSessions, userRoleVersion,
                 nextId, hist, rlsVars, extVars>>

\* The pipeline's commands as the store applies them: a command whose reply
\* is an error, or that never reached the store, leaves its key as it was.
\* The third command is in the pipeline only when a device id was given.
\* `returned` says whether createSession handed the id to its caller.
CreatePipeline(t, setApplied, saddApplied, devApplied, returned) ==
  LET r == task[t]
  IN /\ sessKey' = IF setApplied
                    THEN SetEx(sessKey, r.sid, r.sess, CreateRedisTtl(r.ttl, r.absTtl))
                    ELSE sessKey
     /\ userSessions' = IF saddApplied
                         THEN [userSessions EXCEPT ![r.uid] = @ \cup {r.sid}]
                         ELSE userSessions
     /\ deviceSessions' =
          IF devApplied /\ r.sess.did # ""
          THEN [deviceSessions EXCEPT ![r.sess.did] = @ \cup {r.sid}]
          ELSE deviceSessions
     /\ hist' = IF returned
                THEN [hist EXCEPT ![r.sid].stage = "created"]
                ELSE hist

\* `await pipeline.exec()` resolves with an error reply for the SET, the
\* SADD of the user index and/or the SADD of the device index; the replies
\* are not read and the id is returned
CreateExecReplyError(t, setError, saddError, devError) ==
  /\ task[t].op = "create" /\ task[t].pc = "exec"
  /\ setError \/ saddError \/ devError
  /\ devError => task[t].sess.did # ""
  /\ CreatePipeline(t, ~setError, ~saddError, ~devError, TRUE)
  /\ Finish(t, [task[t] EXCEPT !.fault = TRUE, !.res = [valid |-> TRUE, reason |-> ""]])
  /\ UNCHANGED <<clock, userRoleVersion, nextId, rlsVars, extVars>>

\* `await pipeline.exec()` rejects (the connection is lost): createSession
\* rejects; the commands of the pipeline that reached the store before the
\* loss, a prefix of the three, have been applied
CreateExecThrows(t, setApplied, saddApplied, devApplied) ==
  /\ task[t].op = "create" /\ task[t].pc = "exec"
  /\ saddApplied => setApplied
  /\ devApplied => (saddApplied /\ task[t].sess.did # "")
  /\ CreatePipeline(t, setApplied, saddApplied, devApplied, FALSE)
  /\ Finish(t, [task[t] EXCEPT !.fault = TRUE, !.res = Thrown])
  /\ UNCHANGED <<clock, userRoleVersion, nextId, rlsVars, extVars>>

NextCreate ==
  \/ \E t \in Tasks, p \in CreateFaultInputs : CreateStart(t, p)
  \/ \E t \in Tasks : CreateIncr(t)
  \/ \E t \in Tasks : CreateIncrFails(t)
  \/ \E t \in Tasks : CreateExec(t)
  \/ \E t \in Tasks, e1 \in BOOLEAN, e2 \in BOOLEAN, e3 \in BOOLEAN :
       CreateExecReplyError(t, e1, e2, e3)
  \/ \E t \in Tasks, a1 \in BOOLEAN, a2 \in BOOLEAN, a3 \in BOOLEAN :
       CreateExecThrows(t, a1, a2, a3)
  \/ \E t \in Tasks, s \in SessionIds, i \in IdleTtlInputs : ValidateGet(t, s, i)
  \/ \E t \in Tasks : ValidateNow(t)
  \/ \E t \in Tasks : ValidateExec(t)
  \/ \E t \in Tasks : ValidateRevoke(t)
  \/ \E t \in Tasks : Return(t)

SpecCreate == Init /\ [][NextCreate]_vars

\* ------------------------------------------------------------------------
\* Part 6c: several sessions of one subject
\* ------------------------------------------------------------------------
ManyInputs ==
  { [userId |-> "u1", deviceId |-> "d1", role |-> "TRADER", mfa |-> FALSE,
     absoluteTtlSec |-> 0, idleTtlSec |-> 0] }

\* createSession, up to MaxIds sessions
ManyCreateStart(t, p) == CreateStartCall(t, p, MaxIds) /\ UNCHANGED <<rlsVars, extVars>>

NextMany ==
  \/ \E t \in Tasks, p \in ManyInputs : ManyCreateStart(t, p)
  \/ \E t \in Tasks : CreateIncr(t)
  \/ \E t \in Tasks : CreateExec(t)
  \/ \E t \in Tasks, s \in SessionIds, i \in IdleTtlInputs : ValidateGet(t, s, i)
  \/ \E t \in Tasks : ValidateNow(t)
  \/ \E t \in Tasks : ValidateExec(t)
  \/ \E t \in Tasks : ValidateRevoke(t)
  \/ \E t \in Tasks : Return(t)

SpecMany == Init /\ [][NextMany]_vars

\* ------------------------------------------------------------------------
\* Part 6d: the session status check, GET of the refresh endpoint
\* (src/unnamed/part_010): validateAndRefreshSession(sessionId, 0)
\* ------------------------------------------------------------------------
StatusGet(t, s) == ValidateGetCall(t, s, StatusIdleTtl) /\ UNCHANGED <<rlsVars, extVars>>

NextStatus ==
  \/ \E t \in Tasks, p \in CreateInputs : CreateStart(t, p)
  \/ \E t \in Tasks : CreateIncr(t)
  \/ \E t \in Tasks : CreateExec(t)
  \/ \E t \in Tasks, s \in SessionIds : StatusGet(t, s)
  \/ \E t \in Tasks, s \in SessionIds, i \in IdleTtlInputs : ValidateGet(t, s, i)
  \/ \E t \in Tasks : ValidateNow(t)
  \/ \E t \in Tasks : ValidateExec(t)
  \/ \E t \in Tasks, e2 \in BOOLEAN : ValidateExecReplyError(t, TRUE, e2)
  \/ \E t \in Tasks : ValidateRevoke(t)
  \/ \E t \in Tasks : Return(t)

SpecStatus == Init /\ [][NextStatus]_vars

\* ------------------------------------------------------------------------
\* Part 7: JWTTokenService.issueOneTime / consumeOneTime
\* ------------------------------------------------------------------------
\* Math.floor(Date.now() / 1000)
NowSeconds(ms) == ms \div MsPerSecond

\* randomBytes(16).toString('hex'): a value no earlier call returned
generateJti(n) == FreshJtis[n + 1]

\* The claims of the token: the service's fields, then `...payload`, whose
\* keys replace the fields of the same name
wsPayload(payload, now, ttlSec, fresh) ==
  [sub |-> payload.userId, role |-> payload.role, iat |-> now,
   exp |-> now + Min(ttlSec, MaxOneTimeTtl),
   jti |-> IF payload.jti # "" THEN payload.jti ELSE fresh]

\* HMAC-SHA256 over header and payload: a value only the secret's holder
\* can produce for these claims
signToken(claims, secret) ==
  [sub |-> claims.sub, role |-> claims.role, iat |-> claims.iat, exp |-> claims.exp,
   jti |-> claims.jti, mac |-> secret]

\* The claims when the signature matches the secret, NoToken otherwise
verifyToken(token, secret) == IF token.mac = secret THEN token ELSE NoToken

TokenUnchanged == UNCHANGED <<sessionVars, rlsVars, provVars, mwVars, epVars, watchVars>>

issueOneTime(payload, ttlSec) ==
  /\ tok.issues < MaxTokens
  /\ LET now == NowSeconds(tok.now)
         claims == wsPayload(payload, now, ttlSec, generateJti(tok.issues))
         token == signToken(claims, "ws")
     IN tok' = [tok EXCEPT
          !.issues = @ + 1,
          !.issued = @ \cup {token},
          !.oneTimeTokens[claims.jti] =
             [userId |-> payload.userId, role |-> payload.role,
              expiresAt |-> claims.exp * MsPerSecond]]
  /\ TokenUnchanged

\* The tokens a caller can present: the issued ones and the same claims
\* signed with another secret
Presented == tok.issued \cup {[t EXCEPT !.mac = "jwt"] : t \in tok.issued}

\* The service after consumeOneTime(token)
Consumed(token) ==
  LET payload == verifyToken(token, "ws")
      storedToken == IF payload.jti = "" THEN NoStoredToken
                     ELSE tok.oneTimeTokens[payload.jti]
      call == [NoConsume EXCEPT !.token = token, !.at = tok.now,
                                !.again = token \in tok.consumed]
  IN IF payload = NoToken \/ payload.jti = "" \/ storedToken = NoStoredToken
     THEN [tok EXCEPT !.last = call]
     ELSE IF storedToken.expiresAt < tok.now
     THEN [tok EXCEPT !.oneTimeTokens[payload.jti] = NoStoredToken,
                      !.last = call]
     ELSE [tok EXCEPT !.oneTimeTokens[payload.jti] = NoStoredToken,
                      !.consumed = @ \cup {token},
                      !.last = [call EXCEPT !.ok = TRUE, !.payload = storedToken]]

consumeOneTime(token) ==
  /\ token \in Presented
  /\ tok' = Consumed(token)
  /\ TokenUnchanged

\* setInterval(() => this.cleanupExpiredTokens(), 5 * 60 * 1000)
cleanupExpiredTokens ==
  /\ \E j \in Jtis : tok.oneTimeTokens[j] # NoStoredToken
                       /\ tok.oneTimeTokens[j].expiresAt < tok.now
  /\ tok' = [tok EXCEPT !.oneTimeTokens =
        [j \in Jtis |-> IF @[j] # NoStoredToken /\ @[j].expiresAt < tok.now
                        THEN NoStoredToken ELSE @[j]]]
  /\ TokenUnchanged

TokenClock ==
  /\ tok.now < MaxTokenTime
  /\ tok' = [tok EXCEPT !.now = @ + TokenTick]
  /\ TokenUnchanged

\* Every token the service can sign within the bounds, under either secret
TokenUniverse ==
  { signToken(wsPayload(p, n, ttl, j), k) :
      p \in TokenPayloads, n \in 0..NowSeconds(MaxTokenTime), ttl \in OneTimeTtls,
      j \in Jtis, k \in TokenSecrets }

NextToken ==
  \/ \E p \in TokenPayloads, ttl \in OneTimeTtls : issueOneTime(p, ttl)
  \/ \E t \in TokenUniverse : consumeOneTime(t)
  \/ cleanupExpiredTokens
  \/ TokenClock

SpecToken == Init /\ [][NextToken]_vars

\* ------------------------------------------------------------------------
\* Part 8: the RedisSessionStore adapter (SessionStore port over the same
\* keys).  A method that awaits one store command or one pipeline is one
\* step; delUserSessions, and deleteWithTracking without a user id, read
\* first and are two.
\* ------------------------------------------------------------------------
StoreTtlInputs == {0, 1}

\* The Session objects a caller hands to the adapter
StoreSessions ==
  {NewSession(p, 0, p.absoluteTtlSec, p.idleTtlSec, 0) :
     p \in {q \in CreateInputs : q.userId = "u1"}}

Resolved == [NoResult EXCEPT !.valid = TRUE]

StoreCall(name, sessionId, userId) ==
  [IdleTask EXCEPT !.op = name, !.sid = sessionId, !.uid = userId]

\* set(sessionId, session, ttlSec): SET sess:<id> <json> EX ttlSec; a refused
\* command rejects and the catch rethrows 'Failed to store session'
set(t, sessionId, session, ttlSec) ==
  /\ Free(t)
  /\ sessKey' = SetEx(sessKey, sessionId, session, ttlSec)
  /\ FinishIn(Disturb(task, {sessionId}), t,
       [StoreCall("set", sessionId, session.uid) EXCEPT
          !.res = IF SetExAccepted(ttlSec) THEN Resolved ELSE Thrown])
  /\ UNCHANGED <<clock, userSessions, deviceSessions, userRoleVersion, nextId, hist,
                 rlsVars, extVars>>

\* del(sessionId): a pipeline holding DEL sess:<id> alone
del(t, sessionId) ==
  /\ Free(t)
  /\ sessKey' = DelKeys(sessKey, {sessionId})
  /\ FinishIn(Disturb(task, {sessionId}), t,
       [StoreCall("del", sessionId, "") EXCEPT !.res = Resolved])
  /\ UNCHANGED <<clock, userSessions, deviceSessions, userRoleVersion, nextId, hist,
                 rlsVars, extVars>>

\* trackUserSession(userId, sessionId): SADD user:sess:<userId> sessionId
trackUserSession(t, userId, sessionId) ==
  /\ Free(t)
  /\ userSessions' = [userSessions EXCEPT ![userId] = @ \cup {sessionId}]
  /\ Finish(t, [StoreCall("trackUserSession", sessionId, userId) EXCEPT !.res = Resolved])
  /\ UNCHANGED <<clock, sessKey, deviceSessions, userRoleVersion, nextId, hist,
                 rlsVars, extVars>>

\* untrackUserSession(userId, sessionId): SREM user:sess:<userId> sessionId
untrackUserSession(t, userId, sessionId) ==
  /\ Free(t)
  /\ userSessions' = SRem(userSessions, {userId}, sessionId)
  /\ Finish(t, [StoreCall("untrackUserSession", sessionId, userId) EXCEPT !.res = Resolved])
  /\ UNCHANGED <<clock, sessKey, deviceSessions, userRoleVersion, nextId, hist,
                 rlsVars, extVars>>

\* createWithTracking(sessionId, session, ttlSec): a pipeline of SET ... EX and
\* SADD user:sess:<session.uid>; exec() resolves with the per-command replies,
\* so a refused SET leaves the SADD applied and the call resolved
createWithTracking(t, sessionId, session, ttlSec) ==
  /\ Free(t)
  /\ sessKey' = SetEx(sessKey, sessionId, session, ttlSec)
  /\ userSessions' = [userSessions EXCEPT ![session.uid] = @ \cup {sessionId}]
  /\ FinishIn(Disturb(task, {sessionId}), t,
       [StoreCall("createWithTracking", sessionId, session.uid) EXCEPT !.res = Resolved])
  /\ UNCHANGED <<clock, deviceSessions, userRoleVersion, nextId, hist, rlsVars, extVars>>

\* get(sessionId): GET sess:<id>; null for a missing key, else the parsed blob
get(t, sessionId) ==
  /\ Free(t)
  /\ LET k == sessKey[sessionId]
     IN Finish(t, [StoreCall("get", sessionId, "") EXCEPT
                     !.found = Live(k),
                     !.sess = IF Live(k) THEN k.blob ELSE NullSession,
                     !.res = Resolved])
  /\ UNCHANGED <<clock, sessKey, userSessions, deviceSessions, userRoleVersion,
                 nextId, hist, rlsVars, extVars>>

\* getUserSessions(userId): SMEMBERS user:sess:<userId>
getUserSessions(t, userId) ==
  /\ Free(t)
  /\ Finish(t, [StoreCall("getUserSessions", 0, userId) EXCEPT
                  !.members = userSessions[userId], !.res = Resolved])
  /\ UNCHANGED <<clock, sessKey, userSessions, deviceSessions, userRoleVersion,
                 nextId, hist, rlsVars, extVars>>

\* delUserSessions(userId) up to `await this.getUserSessions(userId)`: an
\* empty index ends the call
delUserSessions(t, userId) ==
  /\ Free(t)
  /\ LET r == [StoreCall("delUserSessions", 0, userId) EXCEPT
                 !.members = userSessions[userId], !.res = Resolved]
     IN IF userSessions[userId] = {}
        THEN FinishIn(Disturb(task, IssuedTo(userId)), t, r)
        ELSE task' = [Disturb(task, IssuedTo(userId)) EXCEPT ![t] =
                        [r EXCEPT !.pc = "exec"]]
  /\ UNCHANGED <<clock, sessKey, userSessions, deviceSessions, userRoleVersion,
                 nextId, hist, rlsVars, extVars>>

\* delUserSessions: the pipeline of DEL sess:<id> for every id read, DEL
\* user:sess:<userId> and INCR user:ver:<userId>
delUserSessionsExec(t) ==
  /\ task[t].op = "delUserSessions" /\ task[t].pc = "exec"
  /\ userRoleVersion[task[t].uid] < MaxVer
  /\ LET r == task[t]
     IN /\ sessKey' = DelKeys(sessKey, r.members)
        /\ userSessions' = [userSessions EXCEPT ![r.uid] = {}]
        /\ userRoleVersion' = [userRoleVersion EXCEPT ![r.uid] = @ + 1]
        /\ FinishIn(Disturb(task, IssuedTo(r.uid) \cup r.members), t, r)
  /\ UNCHANGED <<clock, deviceSessions, nextId, hist, rlsVars, extVars>>

\* health(): PING answers
health(t) ==
  /\ Free(t)
  /\ Finish(t, [StoreCall("health", 0, "") EXCEPT !.res = Resolved])
  /\ UNCHANGED <<clock, sessKey, userSessions, deviceSessions, userRoleVersion,
                 nextId, hist, rlsVars, extVars>>

\* incr(key): INCR key, for the key user:ver:<userId>; the call returns the
\* new value
incr(t, userId) ==
  /\ Free(t)
  /\ userRoleVersion[userId] < MaxVer
  /\ userRoleVersion' = [userRoleVersion EXCEPT ![userId] = @ + 1]
  /\ FinishIn(Disturb(task, IssuedTo(userId)), t,
       [StoreCall("incr", 0, userId) EXCEPT
          !.count = userRoleVersion[userId] + 1, !.res = Resolved])
  /\ UNCHANGED <<clock, sessKey, userSessions, deviceSessions, nextId, hist,
                 rlsVars, extVars>>

\* getUserSessionCount(userId): SCARD user:sess:<userId>
getUserSessionCount(t, userId) ==
  /\ Free(t)
  /\ Finish(t, [StoreCall("getUserSessionCount", 0, userId) EXCEPT
                  !.count = Cardinality(userSessions[userId]), !.res = Resolved])
  /\ UNCHANGED <<clock, sessKey, userSessions, deviceSessions, userRoleVersion,
                 nextId, hist, rlsVars, extVars>>

\* The pipeline of deleteWithTracking: DEL sess:<id>, and SREM
\* user:sess:<userId> when a user id is known
deleteWithTrackingExec(t, r) ==
  /\ sessKey' = DelKeys(sessKey, {r.sid})
  /\ userSessions' = SRem(userSessions, IF r.uid # "" THEN {r.uid} ELSE {}, r.sid)
  /\ FinishIn(Disturb(task, {r.sid}), t, [r EXCEPT !.res = Resolved])
  /\ UNCHANGED <<clock, deviceSessions, userRoleVersion, nextId, hist,
                 rlsVars, extVars>>

\* deleteWithTracking(sessionId, userId?): with a user id the pipeline is the
\* only store call; without one (userId "") the call first awaits
\* this.get(sessionId) and takes the uid of the session it finds
deleteWithTracking(t, sessionId, userId) ==
  /\ Free(t)
  /\ IF userId # ""
     THEN deleteWithTrackingExec(t, StoreCall("deleteWithTracking", sessionId, userId))
     ELSE /\ LET k == sessKey[sessionId]
             IN task' = [Disturb(task, {sessionId}) EXCEPT ![t] =
                  [StoreCall("deleteWithTracking", sessionId,
                             IF Live(k) THEN k.blob.uid ELSE "")
                     EXCEPT !.pc = "exec", !.found = Live(k)]]
          /\ UNCHANGED <<clock, sessKey, userSessions, deviceSessions,
                         userRoleVersion, nextId, hist, rlsVars, extVars>>

\* deleteWithTracking after its lookup: the pipeline
deleteWithTrackingAfterGet(t) ==
  /\ task[t].op = "deleteWithTracking" /\ task[t].pc = "exec"
  /\ deleteWithTrackingExec(t, task[t])

\* The user ids callers pass to the adapter
StoreUsers == {"u1"}

StoreNext ==
  \/ \E t \in Tasks, s \in SessionIds : get(t, s)
  \/ \E t \in Tasks, u \in StoreUsers : getUserSessions(t, u)
  \/ \E t \in Tasks, u \in StoreUsers : delUserSessions(t, u)
  \/ \E t \in Tasks : delUserSessionsExec(t)
  \/ \E t \in Tasks : health(t)
  \/ \E t \in Tasks, u \in StoreUsers : incr(t, u)
  \/ \E t \in Tasks, u \in StoreUsers : getUserSessionCount(t, u)
  \/ \E t \in Tasks, s \in SessionIds, u \in StoreUsers \cup {""} :
       deleteWithTracking(t, s, u)
  \/ \E t \in Tasks : deleteWithTrackingAfterGet(t)
  \/ \E t \in Tasks, s \in SessionIds, b \in StoreSessions, ttl \in StoreTtlInputs :
       set(t, s, b, ttl)
  \/ \E t \in Tasks, s \in SessionIds : del(t, s)
  \/ \E t \in Tasks, u \in StoreUsers, s \in SessionIds : trackUserSession(t, u, s)
  \/ \E t \in Tasks, u \in StoreUsers, s \in SessionIds : untrackUserSession(t, u, s)
  \/ \E t \in Tasks, s \in SessionIds, b \in StoreSessions, ttl \in StoreTtlInputs :
       createWithTracking(t, s, b, ttl)

\* The adapter beside the session manager's validateAndRefreshSession, which
\* reads and revokes what the adapter wrote
NextStore ==
  \/ \E t \in Tasks, s \in SessionIds, i \in IdleTtlInputs : ValidateGet(t, s, i)
  \/ \E t \in Tasks : ValidateNow(t)
  \/ \E t \in Tasks : ValidateExec(t)
  \/ \E t \in Tasks : ValidateRevoke(t)
  \/ \E t \in Tasks : Return(t)
  \/ StoreNext
  \/ Tick

SpecStore == Init /\ [][NextStore]_vars

\* ------------------------------------------------------------------------
\* Properties of the session store
\* ------------------------------------------------------------------------
Validations == {t \in Tasks : task[t].op = "validate" /\ task[t].pc = "done"}

Unexpired(t) == task[t].res.reason \notin {"expired", "idle_expired"}

\* C1: a validation of a freshly created session that finds the key, with
\* neither expiry passed and with no revoke, revokeAll or role change since
\* the session was created, returns valid with the session of its subject.
C1_FreshSessionValidates ==
  \A t \in Validations :
    task[t].clean /\ task[t].found /\ Unexpired(t)
      => task[t].res.valid /\ task[t].sess.uid = hist[task[t].sid].uid

\* C2: a validation that starts after revokeAllUserSessions(subject) completed
\* returns invalid for every session whose createSession had read the role
\* version when revokeAll enumerated the index, written or not.
C2_RevokeAllInvalidates ==
  \A t \in Validations : task[t].afterAll => ~task[t].res.valid

\* C3: a validation that starts after a completed role-version bump
\* (updateUserRole, or the INCR of revokeAllUserSessions) on a session issued
\* under the prior version returns invalid.
C3_BumpInvalidates ==
  \A t \in Validations : task[t].afterBump => ~task[t].res.valid

\* C4: the session a valid validation returns has idleExp <= exp.
C4_IdleWithinAbsolute ==
  \A t \in Validations : task[t].res.valid => task[t].sess.idleExp <= task[t].sess.exp

\* C5: a validation returns valid only if the role-version read succeeded,
\* the key was present and its value equals the session's roleVersion.
C5_ValidOnlyOnVersionMatch ==
  \A t \in Validations :
    task[t].res.valid
      => /\ ~task[t].verErr
         /\ Truthy(task[t].verReply)
         /\ ParseInt(task[t].verReply) = task[t].sess.roleVersion

\* C6: a validation one of whose store calls failed (the fetch, the
\* role-version read, the refresh write) returns not_found, never valid.
C6_FailsClosed ==
  \A t \in Validations :
    task[t].fault => ~task[t].res.valid /\ task[t].res.reason = "not_found"

\* C7: once the key of a created session is gone from the store, no step
\* writes it back.
C7_DeletedStaysDeleted ==
  [][\A s \in SessionIds :
       Created(s) /\ ~sessKey[s].exists => ~sessKey'[s].exists]_vars

\* ------------------------------------------------------------------------
\* Properties of the row-level-security context
\* ------------------------------------------------------------------------
NonPrivileged(ctx) ==
  \A i \in 1..Len(ctx.roles) : ctx.roles[i] \in {"TRADER", "COACH"}

NoIdentity(cr) ==
  /\ CurrentUserSetting(cr).text = ""
  /\ CurrentRolesSetting(cr).text = <<>>
  /\ CurrentUserId(cr) = NullUuid
  /\ \A role \in RoleNames : HasRole(cr, role) # SqlTrue

\* C8: every row a read of the tenant table returns inside withRLS(A, ...),
\* A carrying no ADMIN or SYSTEM role, is owned by A: no row of another
\* identity is returned, whether the other identity's transaction is still
\* running on the pool or has already committed.
C8_TenantIsolation ==
  \A t \in Tasks :
    (rtask[t].kind = "withRLS" /\ NonPrivileged(rtask[t].ctx))
      => \A r \in rtask[t].rows : r.user_id = UuidIn(rtask[t].ctx.userId).v

\* C8 witness: identity ub has committed after a read that scanned a row of
\* ua and returned only its own row, while ua's transaction on the other
\* connection has read the table holding ub's row and got only its own.
C8_Witness ==
  \E t, t2 \in Tasks :
    /\ rtask[t].kind = "withRLS" /\ rtask[t].pc = "done"
    /\ rtask[t].outcome = "ok" /\ rtask[t].ctx.userId = "ub"
    /\ rtask[t].rows # {}
    /\ \E r \in rtask[t].scanned : r.user_id = "ua" /\ r \notin rtask[t].rows
    /\ rtask[t2].kind = "withRLS" /\ rtask[t2].pc = "op"
    /\ rtask[t2].ctx.userId = "ua"
    /\ rtask[t2].rows # {}
    /\ \E r \in rtask[t2].scanned : r.user_id = "ub" /\ r \notin rtask[t2].rows

\* C9: a connection that is in the pool, and a connection on which a
\* transaction has begun but not yet bound its identity, carries no subject
\* id and no roles: what withRLS bound ended with its transaction, by
\* commit or by rollback.
C9_IdentityEndsWithTransaction ==
  /\ \A c \in Conns : conn[c].owner = 0 => NoIdentity(conn[c])
  /\ \A t \in Tasks : rtask[t].pc = "setUser" => NoIdentity(conn[rtask[t].c])

\* C9 witness: ub's transaction has begun on the connection on which a
\* withSystemContext call whose operation rebound the identity with
\* app.set_auth has just committed.
C9_Witness ==
  \E t, t2 \in Tasks :
    /\ rtask[t2].kind = "withRLS" /\ rtask[t2].pc = "done"
    /\ rtask[t2].outcome = "ok" /\ rtask[t2].ctx = SystemContext
    /\ rtask[t2].stmt = "set_auth"
    /\ rtask[t].pc = "setUser" /\ rtask[t].ctx.userId = "ub"
    /\ rtask[t].c = rtask[t2].c

\* C10: a statement on the tenant table issued with no identity bound, the
\* table holding rows, ends with an error.
C10_NoIdentityRaises ==
  \A t \in Tasks :
    (rtask[t].kind = "raw" /\ rtask[t].pc = "done"
       /\ (rtask[t].stmt = "insert" \/ rtask[t].scanned # {}))
      => rtask[t].outcome = "error"

\* ------------------------------------------------------------------------
\* Properties of user provisioning
\* ------------------------------------------------------------------------
Provisioned == {t \in Tasks : ptask[t].pc = "done" /\ ptask[t].outcome = "ok"}

\* C11: after any number of provisionUser calls for a subject the portfolios
\* table holds at most one row of that subject, and two calls for the same
\* subject return the same portfolio id.
C11_OneDefaultPortfolio ==
  /\ \A inp \in ProvisionInputs :
        Cardinality({p \in pPortfolios : p.user_id = inp.userId}) <= 1
  /\ \A t1, t2 \in Provisioned :
        ptask[t1].userId = ptask[t2].userId
          => ptask[t1].portfolioId = ptask[t2].portfolioId

\* C12: of two provisionUser calls for the same subject at most one returns
\* created = true, and a call for a subject whose users row was committed
\* before it began returns created = false.
C12_CreatedOnce ==
  /\ \A t1, t2 \in Provisioned :
        (t1 # t2 /\ ptask[t1].userId = ptask[t2].userId)
          => ~(ptask[t1].created /\ ptask[t2].created)
  /\ \A t \in Provisioned : ptask[t].existed => ~ptask[t].created

\* ------------------------------------------------------------------------
\* Properties of the authentication middleware
\* ------------------------------------------------------------------------
Answered == mw.pc \in {"responded", "handled"}

Validated == mw.result # NoValidation

Accepted == Validated /\ mw.result.valid /\ mw.result.session # NoSession

PassedDownstream == Answered /\ mw.resp.kind = "next"

AnsweredUnauthorized ==
  /\ Answered
  /\ \/ mw.resp.kind = "json" /\ mw.resp.status = 401
     \/ mw.resp.kind = "redirect" /\ mw.resp.location = "/login"

AnsweredForbidden ==
  /\ Answered
  /\ \/ mw.resp.kind = "json" /\ mw.resp.status = 403
     \/ mw.resp.kind = "redirect" /\ mw.resp.location = "/access-denied"

\* The request carries no token, validation rejected it, or validation threw.
AuthenticationFailed ==
  /\ Answered
  /\ \/ extractSessionId(mw.req) = ""
     \/ mw.threw
     \/ Validated /\ ~Accepted

\* C13: a request for a path under /admin, /api/admin or /api/system is
\* passed to its handler only with a session that validation accepted and
\* whose role is ADMIN or SYSTEM.
C13_ElevatedNeedsElevatedRole ==
  (PassedDownstream /\ requiresAdmin(mw.req.pathname))
    => (Accepted /\ mw.result.session.role \in {"ADMIN", "SYSTEM"})

\* C14: the identity context a handler reads with getAuthContext is the one
\* of the session the middleware validated for the request (none when no
\* session was validated), whatever identity headers the client sent.
C14_ContextIsValidatedSession ==
  mw.pc = "handled"
    => mw.ctx = IF Accepted
                THEN [userId |-> mw.result.session.uid,
                      deviceId |-> mw.result.session.did,
                      role |-> mw.result.session.role,
                      roleVersion |-> mw.result.session.roleVersion,
                      mfa |-> mw.result.session.mfa,
                      sessionId |-> mw.sessionId]
                ELSE NoAuthContext

\* C15: on a protected or elevated path the answer is 403 (JSON) or a
\* redirect to /access-denied exactly when an accepted session lacks the
\* role an elevated path requires, and 401 (JSON) or a redirect to /login
\* exactly when the session is missing or was not accepted.
C15_ForbiddenVersusUnauthorized ==
  (Answered /\ (requiresAuth(mw.req.pathname) \/ requiresAdmin(mw.req.pathname)))
    => /\ AnsweredForbidden <=>
            (Accepted /\ requiresAdmin(mw.req.pathname)
               /\ LacksAdminRole(mw.result.session.role))
       /\ AnsweredUnauthorized <=> AuthenticationFailed

\* C16: on a protected path every authentication failure is answered with
\* 401 JSON and code AUTH_REQUIRED on an /api/ path and with a redirect to
\* /login carrying the path as returnUrl on a page path, and the answer
\* clears the app_session cookie.
C16_FailureAnswerClearsCookie ==
  (AuthenticationFailed /\ requiresAuth(mw.req.pathname))
    => /\ IF IsApiPath(mw.req.pathname)
          THEN mw.resp.kind = "json" /\ mw.resp.status = 401
                 /\ mw.resp.code = "AUTH_REQUIRED"
          ELSE mw.resp.kind = "redirect" /\ mw.resp.location = "/login"
                 /\ mw.resp.returnUrl = mw.req.pathname
       /\ mw.resp.cookieDeleted

\* C17: on a protected path, when validateAndRefreshSession throws or
\* returns valid without a session, the middleware still answers, with an
\* authentication failure, and the request is not passed to its handler.
C17_ThrowOrMalformedIsFailure ==
  (Answered /\ requiresAuth(mw.req.pathname)
     /\ (mw.threw \/ (Validated /\ mw.result.valid /\ mw.result.session = NoSession)))
    => (AnsweredUnauthorized /\ ~PassedDownstream)

C17_Witness ==
  /\ mw.pc = "responded"
  /\ mw.threw
  /\ requiresAuth(mw.req.pathname)
  /\ mw.req.cookie = "s1"
  /\ mw.resp.kind = "redirect"
  /\ mw.resp.location = "/login"

\* ------------------------------------------------------------------------
\* Properties of the revoke endpoint
\* ------------------------------------------------------------------------
StoreUnchanged ==
  UNCHANGED <<sessKey, userSessions, deviceSessions, userRoleVersion>>

\* C18: a revoke request with scope 'user' whose identity context does not
\* have role ADMIN or SYSTEM is answered 403 in the step that receives it,
\* calls no revocation, and leaves every session key, session index and
\* role version as it was.
C18_UserScopeNeedsElevatedContext ==
  [][\A t \in Tasks :
       (ep[t].pc = "idle" /\ ep'[t].pc # "idle" /\ ep'[t].scope = "user"
          /\ ep'[t].ctx.role \notin {"ADMIN", "SYSTEM"})
         => /\ ep'[t].pc = "done"
            /\ ep'[t].status = 403
            /\ ep'[t].call = ""
            /\ task'[t] = task[t]
            /\ StoreUnchanged]_vars

C18_Witness ==
  \E t \in Tasks :
    /\ ep[t].pc = "done"
    /\ ep[t].scope = "user"
    /\ ep[t].status = 403
    /\ ep[t].ctx.role = "TRADER"
    /\ ep[t].req.userId = "u1"
    /\ \E s \in SessionIds : Live(sessKey[s]) /\ sessKey[s].blob.uid = "u1"

\* C19: a successful revoke answers sessionsRevoked = the number of session
\* keys its DEL removed for scope 'current' (1 when the session was there,
\* 0 when it was not) and -1 for the scopes 'all' and 'user'.
C19_SessionsRevokedIsCount ==
  \A t \in Tasks :
    (ep[t].pc = "done" /\ ep[t].success)
      => ep[t].sessionsRevoked = IF ep[t].scope = "current" THEN ep[t].removed ELSE -1

\* ------------------------------------------------------------------------
\* Properties of validation of an unknown session id
\* ------------------------------------------------------------------------
\* C20: a validateAndRefreshSession that begins on an id whose key is not in
\* the store ends in that step with valid = false and reason not_found, and
\* the step changes no session key, session index or role version.
C20_UnknownIdIsNotFound ==
  [][\A t \in Tasks :
       (task[t].op = "idle" /\ task'[t].op = "validate"
          /\ ~sessKey[task'[t].sid].exists)
         => /\ task'[t].pc = "done"
            /\ ~task'[t].res.valid
            /\ task'[t].res.reason = "not_found"
            /\ UNCHANGED <<sessKey, userSessions, deviceSessions, userRoleVersion>>]_vars

C20_Witness ==
  \E t \in Tasks :
    /\ task[t].op = "validate"
    /\ task[t].pc = "done"
    /\ ~task[t].fault
    /\ ~task[t].found
    /\ task[t].res.reason = "not_found"
    /\ hist[task[t].sid].stage = ""
    /\ ~sessKey[task[t].sid].exists
    /\ \E s \in SessionIds : sessKey[s].exists

\* ------------------------------------------------------------------------
\* Properties of revocation, refresh and rotation in the session store
\* ------------------------------------------------------------------------
OthersIdle(t) == \A t2 \in Tasks \ {t} : task[t2].op = "idle"

\* The step in which the revokeAllUserSessions of task t returns.
RevokeAllCompletes(t) ==
  /\ task[t].pc # "done"
  /\ task'[t].op = "revokeAll"
  /\ task'[t].pc = "done"

\* C22: when revokeAllUserSessions(subject) returns with no other call in
\* flight and with the index as it enumerated it, the index of the subject
\* is empty and no key of a session created for the subject is left, so
\* that the validation of each of them finds no key and answers not_found.
C22_RevokeAllLeavesNoKey ==
  [][\A t \in Tasks :
       (RevokeAllCompletes(t) /\ OthersIdle(t)
          /\ (task[t].op = "revokeAll" => task[t].members = userSessions[task[t].uid]))
         => /\ userSessions'[task'[t].uid] = {}
            /\ \A s \in SessionIds :
                 (Created(s) /\ hist[s].uid = task'[t].uid) => ~sessKey'[s].exists]_vars

\* C25: the write of a validation's refresh never lowers the idleExp stored
\* for the session.
C25_IdleExpiryNeverDecreases ==
  [][\A t \in Tasks :
       (task[t].op = "validate" /\ task[t].pc = "exec" /\ task'[t].pc # "exec"
          /\ sessKey[task[t].sid].exists /\ sessKey'[task[t].sid].exists)
         => sessKey'[task[t].sid].blob.idleExp >= sessKey[task[t].sid].blob.idleExp]_vars

\* C26: the write of rotateSession finds the key of the session it read,
\* raises its rc by one and leaves every other field and the key's expiry as
\* they are; a rotateSession of an id without a key returns null and
\* changes no key.
C26_RotateChangesOnlyCounter ==
  [][\A t \in Tasks :
       /\ (task[t].op = "rotate" /\ task[t].pc = "set" /\ task'[t].pc = "done")
            => /\ sessKey[task[t].sid].exists
               /\ sessKey' = [sessKey EXCEPT ![task[t].sid].blob.rc = @ + 1]
       /\ (task[t].op = "idle" /\ task'[t].op = "rotate" /\ ~task'[t].found)
            => /\ task'[t].res.reason = "null"
               /\ sessKey' = sessKey]_vars

\* C40: the step in which the revoke endpoint answers success for scope
\* 'current' or 'all' follows a revocation none of whose store calls failed,
\* and leaves the key of the request's session (scope 'current'), resp. of
\* every session the call enumerated (scope 'all'), absent from the store,
\* so that no validation can accept it.
AnswersSuccess(t) ==
  /\ ep[t].pc = "call" /\ ep'[t].pc = "done" /\ ep'[t].success
  /\ ep[t].scope \in {"current", "all"}

AffectedSessions(t) ==
  IF ep[t].scope = "current" THEN {ep[t].req.cookie} ELSE task[t].members

C40_SuccessMeansRevoked ==
  [][\A t \in Tasks :
       AnswersSuccess(t)
         => /\ ~task[t].fault
            /\ \A s \in AffectedSessions(t) : ~sessKey'[s].exists]_vars

\* C39: while the key of a session stays in the store, no step lowers the
\* stored rc; the step in which a rotateSession of the session completes
\* leaves the stored rc one above what it was (so the stored rc counts the
\* completed rotations) and does not move the stored idleExp backwards.
RotationCompletes(t, s) ==
  task[t].op = "rotate" /\ task[t].pc = "set" /\ task[t].sid = s /\ task'[t].pc = "done"

C39_NoLostUpdate ==
  [][\A s \in SessionIds :
       (sessKey[s].exists /\ sessKey'[s].exists)
         => /\ sessKey'[s].blob.rc >= sessKey[s].blob.rc
            /\ \A t \in Tasks :
                 RotationCompletes(t, s)
                   => /\ sessKey'[s].blob.rc = sessKey[s].blob.rc + 1
                      /\ sessKey'[s].blob.idleExp >= sessKey[s].blob.idleExp]_vars

\* C30: the step in which a revokeAllUserSessions(subject) returns has
\* raised the role version of the subject by one and has left the index of
\* the subject and every session key the call enumerated deleted.
C30_RevokeAllBumpsAndDeletes ==
  [][\A t \in Tasks :
       RevokeAllCompletes(t)
         => /\ userRoleVersion'[task'[t].uid] = userRoleVersion[task'[t].uid] + 1
            /\ userSessions'[task'[t].uid] = {}
            /\ \A s \in task'[t].members : ~sessKey'[s].exists]_vars

\* C21: a session that no validation touched until the clock reached its
\* idle expiry, its absolute expiry not yet reached, is answered by the
\* next validation with valid false and reason idle_expired, and afterwards
\* its key is absent and its id is absent from its user's session index.
C21_IdleSessionIsIdleExpired ==
  \A t \in Validations :
    LET s == task[t].sid IN
      (watch[s].stored /\ watch[s].validations = 1 /\ OthersIdle(t)
         /\ watch[s].calledAt >= watch[s].idleExp /\ watch[s].calledAt < watch[s].exp
         /\ (task[t].found => task[t].now < watch[s].exp))
        => /\ ~task[t].res.valid
           /\ task[t].res.reason = "idle_expired"
           /\ ~sessKey[s].exists
           /\ s \notin userSessions[hist[s].uid]

\* C23: no validation that reads the clock at or after the absolute expiry
\* the session was created with returns valid, whatever refreshes and
\* rotations came before; the stored absolute expiry is the one of creation.
C23_NeverValidPastAbsoluteExpiry ==
  /\ \A t \in Validations :
       (watch[task[t].sid].stored /\ task[t].res.valid)
         => task[t].now < watch[task[t].sid].exp
  /\ \A s \in SessionIds :
       (watch[s].stored /\ sessKey[s].exists) => sessKey[s].blob.exp = watch[s].exp

\* A validation read a refreshed and rotated key at its absolute expiry and
\* answered expired.
C23_Witness ==
  \E t \in Validations :
    /\ task[t].found
    /\ watch[task[t].sid].stored
    /\ watch[task[t].sid].validations = 2
    /\ task[t].sess.rc = 1
    /\ task[t].now >= watch[task[t].sid].exp
    /\ ~task[t].res.valid
    /\ task[t].res.reason = "expired"

CreateCompletes(t) ==
  /\ task[t].op = "create" /\ task[t].pc = "exec"
  /\ task'[t].pc = "done"

\* C24: createSession is all or nothing: when it returns an id, the blob is
\* stored under the id and the id is in the user's session index; otherwise
\* it fails with an error and leaves neither the blob nor the index entry.
C24_CreateAllOrNothing ==
  [][\A t \in Tasks :
       CreateCompletes(t)
         => LET r == task'[t] IN
              IF r.res.valid
              THEN /\ sessKey'[r.sid].exists
                   /\ sessKey'[r.sid].blob = r.sess
                   /\ r.sid \in userSessions'[r.uid]
              ELSE /\ r.res = Thrown
                   /\ ~sessKey'[r.sid].exists
                   /\ r.sid \notin userSessions'[r.uid]]_vars

\* C27: withRLS commits exactly when the caller's operation returned
\* normally, and then the operation's writes persist; when the operation or
\* the identity setup throws it rolls back, none of the writes persist and the
\* error reaches the caller; in every case the connection is back in the pool.
C27_CommitOnReturnRollbackOnThrow ==
  [][\A t \in Tasks :
       LET c == rtask[t].c IN
         /\ (rtask[t].kind = "withRLS" /\ rtask[t].pc # "commit" /\ rtask'[t].pc = "commit")
              => /\ rtask[t].pc = "op"
                 /\ rtask'[t].pending = rtask[t].pending
                 /\ rtask'[t].deleted = rtask[t].deleted
         /\ (rtask[t].kind = "withRLS" /\ rtask[t].pc # "done" /\ rtask'[t].pc = "done")
              => /\ rtask[t].pc \in {"commit", "rollback"}
                 /\ conn[c].owner = t
                 /\ conn'[c].owner = 0
                 /\ IF rtask[t].pc = "commit"
                    THEN /\ committed' = (committed \ rtask[t].deleted) \cup rtask[t].pending
                         /\ rtask'[t].outcome = "ok"
                    ELSE /\ committed' = committed
                         /\ rtask'[t].outcome = "error"
         /\ (rtask[t].pc \in {"setUser", "setRoles", "verify", "op"}
               /\ rtask'[t].pc \notin {rtask[t].pc, "setRoles", "verify", "op", "commit"})
              => (rtask'[t].pc = "rollback" /\ committed' = committed)]_vars

\* One operation inserted a row, read it back and threw, another deleted a
\* committed row and threw: both withRLS calls ended with the error, the
\* inserted row is not in the table, the deleted row still is, the
\* connections are free.
C27_Witness ==
  \E t, t2 \in Tasks :
    /\ rtask[t].kind = "withRLS" /\ rtask[t].pc = "done"
    /\ rtask[t].outcome = "error"
    /\ rtask[t].stmt = "select"
    /\ rtask[t].rows \ committed # {}
    /\ conn[rtask[t].c].owner = 0
    /\ rtask[t2].kind = "withRLS" /\ rtask[t2].pc = "done"
    /\ rtask[t2].outcome = "error"
    /\ rtask[t2].stmt = "DELETE 1"
    /\ committed # {}
    /\ conn[rtask[t2].c].owner = 0

\* The operation of a withRLS call is running
OperationRuns(t) == rtask[t].kind = "withRLS" /\ rtask[t].pc = "op"

\* C28: withRLS re-reads the binding after setting it and throws without
\* running the operation when the bound subject id or the bound role list
\* differs from the requested one: the operation only ever runs in a
\* transaction whose bound subject id and roles equal the requested pair.
C28_OperationRunsUnderRequestedBinding ==
  \A t \in Tasks :
    OperationRuns(t)
      => LET cr == conn[rtask[t].c] IN
           /\ CurrentUserId(cr) = [err |-> FALSE, null |-> FALSE, v |-> rtask[t].ctx.userId]
           /\ CurrentRolesSetting(cr) = RolesTxt(Join(rtask[t].ctx.roles))

\* The re-read covers the subject id: under the same driver the operation
\* never runs with a subject other than the requested one.
C28_SubjectIsVerified ==
  \A t \in Tasks :
    OperationRuns(t)
      => CurrentUserId(conn[rtask[t].c]) = [err |-> FALSE, null |-> FALSE, v |-> rtask[t].ctx.userId]

\* C29: a provisioning attempt that fails with a conflict is retried once:
\* the login or callback flow answers with the provisioning failure only
\* after a second attempt has failed as well.
C29_ConflictIsRetriedOnce ==
  [][\A t \in Tasks :
       (ptask[t].pc = "done" /\ ptask'[t].pc = "answered"
          /\ ptask'[t].answer = "provisioning_failed")
         => ptask[t].attempts = 2]_vars

\* C31: a subject's role version never decreases and changes only in a
\* step of updateUserRole or revokeAllUserSessions; createSession,
\* validateAndRefreshSession, rotateSession and revokeSession leave it as it is.
C31_RoleVersionChangesOnlyOnBump ==
  [][\A u \in Users :
       /\ userRoleVersion'[u] >= userRoleVersion[u]
       /\ userRoleVersion'[u] # userRoleVersion[u]
            => \E t \in Tasks :
                 /\ task[t].pc # "done" /\ task'[t].pc = "done"
                 /\ task'[t].op \in {"updateRole", "revokeAll"}
                 /\ task'[t].uid = u]_vars

\* The middleware took the session id of a request to a protected route
Extracted == mw.pc # "idle" /\ requiresAuth(mw.req.pathname)

\* C32: the session id is the app_session cookie whenever the cookie is not
\* empty, whatever the Authorization header says; the Bearer credentials
\* when there is no cookie value; none when there is neither a cookie value
\* nor a header that starts with the Bearer scheme.
C32_CookieBeforeBearer ==
  Extracted
    => /\ mw.req.cookie # "" => mw.sessionId = mw.req.cookie
       /\ (mw.req.cookie = "" /\ mw.req.authorization.scheme = "Bearer")
            => mw.sessionId = mw.req.authorization.credentials
       /\ (mw.req.cookie = "" /\ mw.req.authorization.scheme # "Bearer")
            => (mw.sessionId = "" /\ mw.result = NoValidation)

\* A request with both a cookie and a Bearer header is validated under the
\* cookie's id.
C32_Witness ==
  /\ Extracted
  /\ mw.req.cookie = "s1"
  /\ mw.req.authorization = [scheme |-> "Bearer", credentials |-> "s2"]
  /\ mw.sessionId = "s1"
  /\ Validated

\* A revokeSession call completes in this step
RevokeCompletes(t) ==
  /\ task[t].pc # "done"
  /\ task'[t].op = "revoke"
  /\ task'[t].pc = "done"

\* C33: revokeSession(sessionId, subjectId?), called with the owner's id
\* or without a subject id, leaves the session key absent and the id absent
\* from the owner's session index, also when it is repeated or runs beside
\* another revocation of the same id (a call whose lookup ran before the key
\* was first stored is left aside).
C33_RevokeRemovesKeyAndIndexEntry ==
  [][\A t \in Tasks :
       LET s == task'[t].sid IN
         (RevokeCompletes(t) /\ Created(s) /\ task'[t].uid \in {"", hist[s].uid}
            /\ (task'[t].uid = "" => ~sessKey[s].exists))
           => /\ ~sessKey'[s].exists
              /\ s \notin userSessions'[hist[s].uid]]_vars

\* C34: creating further sessions for a subject does not invalidate the
\* subject's sessions: once createSession has completed more than once for
\* the subject, a validation of any of those sessions (begun while its key
\* is stored, nothing revoked, no expiry reached) answers valid.
C34_FurtherSessionsKeepEarlierValid ==
  \A t \in Validations :
    LET s == task[t].sid IN
      (task[t].found /\ Created(s)
         /\ \E s2 \in SessionIds \ {s} : Created(s2) /\ hist[s2].uid = hist[s].uid)
        => task[t].res.valid

\* C35: validations that run side by side on the same live session (each
\* found the key; no revoke, no role change, neither expiry reached) all
\* answer valid with the session's subject.
C35_ConcurrentValidationsAllValid ==
  \A t \in Validations :
    \A t2 \in Tasks \ {t} :
      (task[t].clean /\ task[t].found /\ Unexpired(t)
         /\ task[t2].op = "validate" /\ task[t2].sid = task[t].sid /\ task[t2].found)
        => /\ task[t].res.valid
           /\ task[t].sess.uid = hist[task[t].sid].uid

\* C36: the store TTL never lets a session key outlive the session's
\* absolute expiry: a stored key has an expiry instant, and that instant is
\* not later than the absoluteExpiry in its blob.
C36_KeyExpiresByAbsoluteExpiry ==
  \A s \in SessionIds :
    sessKey[s].exists
      => /\ sessKey[s].expireAt # NoTtl
         /\ sessKey[s].expireAt <= sessKey[s].blob.exp

\* Task t takes a step of a status check: the lookup that begins it, the
\* reading of the clock, the pipeline or the revocation
StatusCheckStep(t) ==
  /\ task'[t].op = "validate" /\ task'[t].ttl = StatusIdleTtl
  /\ task'[t] # task[t]

\* C37: the session status check is read-only: when it begins after a
\* validation has answered valid for the session, no step of the status
\* check changes a session key (its blob with the idleExpiry, its expiry
\* instant) or a session index, and the check itself answers valid, so the
\* session is as valid for the next validation as it was before.
C37_StatusCheckIsReadOnly ==
  [][\A t \in Tasks :
       (StatusCheckStep(t) /\ task'[t].afterValid)
         => /\ sessKey' = sessKey
            /\ userSessions' = userSessions
            /\ task'[t].pc = "done" => task'[t].res.valid]_vars

\* C38: a one-time token is consumed successfully at most once: a
\* consumption of an issued token succeeds only if the token was not
\* consumed before and its expiry has not passed, and then returns the
\* payload the token was issued for; the first consumption of an issued
\* token before its expiry does succeed.
C38_OneTimeTokenConsumedOnce ==
  LET l == tok.last IN
    l.token \in tok.issued
      => /\ l.ok => /\ ~l.again
                    /\ l.at <= l.token.exp * MsPerSecond
                    /\ l.payload.userId = l.token.sub
                    /\ l.payload.role = l.token.role
         /\ (~l.again /\ l.at < l.token.exp * MsPerSecond) => l.ok

====
